---------------------------- MODULE Spec2Model ----------------------------
(***************************************************************************)
(* Model of the entity-resolution and pre-aggregation engine of            *)
(* monitoreo_medios: the noticias table and its three processing stages,   *)
(* the entity resolver with its run-scoped alias index, and the five       *)
(* daily aggregate tables written by ejecutar_agregaciones and             *)
(* backfill_agregaciones.                                                  *)
(*                                                                         *)
(* Tables are sets of rows (records).  Text is a tuple of one-character    *)
(* strings so that normalizar_texto can be computed character by           *)
(* character.  SQL NULL is the value NULL.  Dates are day numbers.         *)
(***************************************************************************)
EXTENDS Integers, Sequences, FiniteSets, TLC

VARIABLES
    noticias,                   \* table noticias
    seq_noticias,               \* sqlite_sequence of noticias: the largest id ever given
    noticia_tema,               \* table noticia_tema
    noticia_entidad,            \* table noticia_entidad
    entidades,                  \* table entidades
    entidad_alias,              \* table entidad_alias
    en_run,                     \* resolver instances that have a run open
    alias_map,                  \* alias_map of each resolver instance (run-scoped dict)
    resueltos,                  \* per instance: (mention, id) pairs returned in the current run
    llamada,                    \* the last get_or_create_entidad call and what it returned
    agregacion_diaria,          \* table agregacion_diaria
    agregacion_tema_diaria,     \* table agregacion_tema_diaria
    agregacion_region_diaria,   \* table agregacion_region_diaria
    agregacion_entidad_diaria,  \* table agregacion_entidad_diaria
    agregacion_medio_diaria,    \* table agregacion_medio_diaria
    ultima,                     \* the last operation run and its outcome
    geo,                        \* the last geography inference: its inputs and results
    paso,                       \* a stage run taken statement by statement: where it is
    fallo,                      \* the last backfill, if it raised: its range and the date
    comparacion,                \* the last comparar_periodos call: its periods and result
    anomalias                   \* the last detectar_anomalias call: its arguments and result

vars == <<noticias, seq_noticias, noticia_tema, noticia_entidad, entidades, entidad_alias,
          en_run, alias_map, resueltos, llamada, agregacion_diaria,
          agregacion_tema_diaria, agregacion_region_diaria,
          agregacion_entidad_diaria, agregacion_medio_diaria, ultima, geo, paso, fallo, comparacion, anomalias>>

varsNoticias == <<noticias, seq_noticias, noticia_tema, noticia_entidad>>
varsEntidades == <<entidades, entidad_alias>>
varsResolver == <<en_run, alias_map, resueltos, llamada>>
varsAgregacion == <<agregacion_diaria, agregacion_tema_diaria,
                    agregacion_region_diaria, agregacion_entidad_diaria,
                    agregacion_medio_diaria>>
\* what the read-only functions were last called with and returned, and the
\* position of the run that is taken statement by statement
varsConsultas == <<geo, paso, fallo, comparacion, anomalias>>

\* SQL NULL in a text column, and in an integer column (no id, flag or count is negative)
NULL == "NULL"
NULL_INT == -99

-----------------------------------------------------------------------------
(* Text and normalizar_texto                                               *)

\* str.lower() on one character
Lower(c) ==
    CASE c = "A" -> "a"
      [] c = "C" -> "c"
      [] c = "F" -> "f"
      [] c = "L" -> "l"
      [] c = "O" -> "o"
      [] c = "S" -> "s"
      [] c = "U" -> "u"
      [] c = "Í" -> "í"
      [] OTHER -> c

\* unicodedata.normalize("NFD", c): a precomposed letter becomes base + combining mark
NFD(c) ==
    CASE c = "í" -> <<"i", "´">>
      [] c = "é" -> <<"e", "´">>
      [] c = "Í" -> <<"I", "´">>
      [] OTHER -> <<c>>

\* unicodedata.category(c) == "Mn"
EsMn(c) == c = "´"

EsEspacio(c) == c = " "

RECURSIVE LStrip(_)
LStrip(s) == IF s # <<>> /\ EsEspacio(Head(s)) THEN LStrip(Tail(s)) ELSE s

RECURSIVE RStrip(_)
RStrip(s) ==
    IF s # <<>> /\ EsEspacio(s[Len(s)]) THEN RStrip(SubSeq(s, 1, Len(s) - 1)) ELSE s

Strip(s) == RStrip(LStrip(s))

RECURSIVE LowerSeq(_)
LowerSeq(s) == IF s = <<>> THEN <<>> ELSE <<Lower(Head(s))>> \o LowerSeq(Tail(s))

RECURSIVE Descomponer(_)
Descomponer(s) == IF s = <<>> THEN <<>> ELSE NFD(Head(s)) \o Descomponer(Tail(s))

NoEsMn(c) == ~EsMn(c)

\* lower(), strip(), NFD, drop the combining marks
normalizar_texto(texto) ==
    IF texto = <<>> THEN <<>>
    ELSE SelectSeq(Descomponer(Strip(LowerSeq(texto))), NoEsMn)

-----------------------------------------------------------------------------
(* Entity resolver                                                         *)

Instancias == {"A", "B"}

\* Mention strings handed to the resolver.
FoCo == <<"F", "o", " ", "C", "o">>
foco == <<"f", "o", " ", "c", "o">>
Fo == <<"F", "o">>
LiAcento == <<"L", "í">>
liEspacio == <<"l", "i", " ">>
Menciones == {FoCo, foco, LiAcento, liEspacio}

\* entity_group the tagger gives each mention
TipoDe(nombre) == IF nombre \in {FoCo, foco, Fo} THEN "ORG" ELSE "PER"

\* Seeded key company: canonical name plus normalized aliases, none of which is
\* the normalized canonical name ("Ford Motor Company" with alias "ford").
EntidadesSemilla == {[id |-> 1, nombre_canonico |-> FoCo, tipo |-> "ORG"]}
AliasSemilla == {[id |-> 1, entidad_id |-> 1, alias |-> normalizar_texto(Fo), es_principal |-> 1]}

\* AUTOINCREMENT rowid of the next inserted row (no row of these tables is deleted)
SiguienteId(tabla) == Cardinality(tabla) + 1

ExisteCanonico(ents, nombre) == \E e \in ents : e.nombre_canonico = nombre

\* Variant: the fallback lookup compares normalized names and takes the oldest match.
IdDeCanonicoNormalizado(ents, nombre) ==
    (CHOOSE e \in ents :
        /\ normalizar_texto(e.nombre_canonico) = normalizar_texto(nombre)
        /\ \A q \in ents :
            normalizar_texto(q.nombre_canonico) = normalizar_texto(nombre) => e.id <= q.id).id

IdDeCanonico(ents, nombre) == (CHOOSE e \in ents : e.nombre_canonico = nombre).id

\* Variant: INSERT OR REPLACE, the new row displaces the row that holds the alias.
InsertOrReplaceAlias(aliases, entidad_id, alias) ==
    {a \in aliases : a.alias # alias}
        \cup {[id |-> SiguienteId(aliases), entidad_id |-> entidad_id,
               alias |-> alias, es_principal |-> 1]}

\* INSERT OR IGNORE INTO entidad_alias under UNIQUE(alias)
InsertOrIgnoreAlias(aliases, entidad_id, alias) ==
    IF \E a \in aliases : a.alias = alias THEN aliases
    ELSE aliases \cup {[id |-> SiguienteId(aliases), entidad_id |-> entidad_id,
                        alias |-> alias, es_principal |-> 1]}

\* Variant: the local cache is not updated.
NoPonerEnCache(amap, nombre_norm, entidad_id) == amap

\* alias_map[nombre_norm] = entidad_id
PonerEnCache(amap, nombre_norm, entidad_id) == (nombre_norm :> entidad_id) @@ amap

\* {row[0]: row[1] for row in "SELECT alias, entidad_id FROM entidad_alias"}:
\* a later row of the scan overwrites an earlier one with the same key
CargarAliasMap(aliases) ==
    [a \in {r.alias : r \in aliases} |->
        (CHOOSE r \in aliases : r.alias = a /\
            \A q \in aliases : q.alias = a => q.id <= r.id).entidad_id]

\* get_or_create_entidad(cursor, nombre, tipo, alias_map): the tables and the
\* dict after the call, and the id returned.
get_or_create_entidad(ents, aliases, amap, nombre, tipo) ==
    LET nombre_norm == normalizar_texto(nombre) IN
    IF nombre_norm \in DOMAIN amap THEN
        [entidades |-> ents, entidad_alias |-> aliases, alias_map |-> amap,
         ret |-> amap[nombre_norm]]
    ELSE IF ~ExisteCanonico(ents, nombre) THEN
        LET entidad_id == SiguienteId(ents) IN
        [entidades |-> ents \cup {[id |-> entidad_id, nombre_canonico |-> nombre,
                                   tipo |-> tipo]},
         entidad_alias |-> InsertOrIgnoreAlias(aliases, entidad_id, nombre_norm),
         alias_map |-> PonerEnCache(amap, nombre_norm, entidad_id),
         ret |-> entidad_id]
    ELSE
        \* UNIQUE(nombre_canonico) fails: the except branch looks the name up
        LET id == IdDeCanonico(ents, nombre) IN
        [entidades |-> ents, entidad_alias |-> aliases,
         alias_map |-> PonerEnCache(amap, nombre_norm, id), ret |-> id]

\* what `ultima` records of an operation that is not an aggregation
OtraOp ==
    [op |-> "otra", fecha |-> 0, ok |-> TRUE, repetida |-> FALSE,
     fecha_inicio |-> 0, fecha_fin |-> 0, hechas |-> <<>>]

\* no geography inference made yet
SinGeografia ==
    [hecha |-> FALSE,
     yaml |-> [estado_objetivo |-> <<>>, estados_mexico |-> {}, paises_clave |-> {},
               empresas_clave |-> {}],
     deteccion |-> <<>>, iteracion |-> <<>>, organizaciones |-> {},
     nivel |-> "indeterminado", region_id |-> NULL_INT, requiere |-> 0]

\* No call observed yet in the current run.
SinLlamada == [nombre |-> <<>>, ret |-> 0, en_indice |-> FALSE, existia |-> 0]

\* A resolver instance starts a run: ejecutar_ner loads its alias_map.
IniciarRun(i) ==
    /\ en_run' = en_run \cup {i}
    /\ alias_map' = [alias_map EXCEPT ![i] = CargarAliasMap(entidad_alias)]
    /\ resueltos' = [resueltos EXCEPT ![i] = {}]
    /\ llamada' = SinLlamada
    /\ UNCHANGED <<varsNoticias, varsEntidades, varsAgregacion, ultima, varsConsultas>>

\* One call of get_or_create_entidad by instance i within its run.
Resolver(i, nombre, tipo) ==
    /\ i \in en_run
    /\ UNCHANGED en_run
    /\ LET r == get_or_create_entidad(entidades, entidad_alias, alias_map[i], nombre, tipo) IN
        /\ entidades' = r.entidades
        /\ entidad_alias' = r.entidad_alias
        /\ alias_map' = [alias_map EXCEPT ![i] = r.alias_map]
        /\ resueltos' = [resueltos EXCEPT ![i] = @ \cup {<<nombre, r.ret>>}]
        /\ llamada' = [nombre |-> nombre, ret |-> r.ret,
                       en_indice |-> normalizar_texto(nombre) \in DOMAIN alias_map[i],
                       existia |-> IF \E e \in entidades : e.nombre_canonico = nombre
                                   THEN (CHOOSE e \in entidades :
                                            e.nombre_canonico = nombre).id
                                   ELSE 0]
    /\ UNCHANGED <<varsNoticias, varsAgregacion, ultima, varsConsultas>>

\* the store after set-up, with no operation run yet
\* no stage run under way; persistido is the database as last committed
SinPaso ==
    [fase |-> "libre", pendientes |-> <<>>, temas |-> <<>>,
     persistido |-> [noticias |-> {}, noticia_tema |-> {}]]

\* the last backfill ended without an exception, or none was run
SinFallo == [fecha_inicio |-> 0, fecha_fin |-> 0, fecha |-> 0]

\* calc_change returned None
Ninguno == [error |-> FALSE, definido |-> FALSE, decimas |-> 0]

Metricas == {"noticias", "relevantes", "riesgos", "oportunidades"}

\* comparar_periodos has not been called
SinComparacion ==
    [hecha |-> FALSE, periodo_actual |-> <<0, 0>>, periodo_anterior |-> <<0, 0>>,
     actual |-> [m \in Metricas |-> 0], anterior |-> [m \in Metricas |-> 0],
     cambios_pct |-> [m \in Metricas |-> Ninguno]]

\* detectar_anomalias has not been called
SinAnomalias == [hecha |-> FALSE, hoy |-> 0, dias |-> 0, umbral_sigma |-> 0, lista |-> <<>>]

\* the store after the migrations, but for the global aggregate table
InitSinDiaria ==
    /\ paso = SinPaso
    /\ fallo = SinFallo
    /\ comparacion = SinComparacion
    /\ anomalias = SinAnomalias
    /\ noticias = {}
    /\ seq_noticias = 0
    /\ noticia_tema = {}
    /\ noticia_entidad = {}
    /\ entidades = EntidadesSemilla
    /\ entidad_alias = AliasSemilla
    /\ en_run = {}
    /\ alias_map = [i \in Instancias |-> <<>>]
    /\ resueltos = [i \in Instancias |-> {}]
    /\ llamada = SinLlamada
    /\ agregacion_tema_diaria = {}
    /\ agregacion_region_diaria = {}
    /\ agregacion_entidad_diaria = {}
    /\ agregacion_medio_diaria = {}
    /\ ultima = OtraOp

InitAlmacen ==
    /\ InitSinDiaria
    /\ agregacion_diaria = {}

Init ==
    /\ InitAlmacen
    /\ geo = SinGeografia

NextResolver ==
    \/ \E i \in Instancias : IniciarRun(i)
    \/ \E i \in Instancias, nombre \in Menciones : Resolver(i, nombre, TipoDe(nombre))

\* Resolver instances interleaving their calls on the shared tables.
SpecResolver == Init /\ [][NextResolver]_vars

-----------------------------------------------------------------------------
(* Feed entries and what the external taggers say about a text             *)

MaxNoticias == 2

Fechas == {1, 2}
\* The entries the feeds can carry: (medio, text of titulo and descripcion)
Entradas ==
    {[medio |-> "medio_a", texto |-> "nota_irrelevante"],
     [medio |-> "medio_a", texto |-> "nota_sin_lugar"],
     [medio |-> "medio_b", texto |-> "nota_coahuila"]}

Co == <<"C", "o">>
US == <<"U", "S">>
li == <<"l", "i">>
mexico == <<"m", "e", "x", "i", "c", "o">>
mexicoAcento == <<"m", "é", "x", "i", "c", "o">>

\* temas seeded from the keyword configuration: SELECT id, nombre FROM temas
tema_map == [economia |-> 1, seguridad |-> 2]

\* clasificar_noticia(titulo, descripcion)["temas"]: topics whose keywords occur in the text
TemasDetectados(texto) ==
    CASE texto = "nota_irrelevante" -> {}
      [] texto = "nota_sin_lugar" -> {"economia"}
      [] texto = "nota_coahuila" -> {"economia", "seguridad"}

\* clasificar_noticia: score is the number of topics matched, relevante is score > 0
clasificar_noticia(texto) ==
    LET temas == TemasDetectados(texto) IN
    [temas |-> temas, score |-> Cardinality(temas),
     relevante |-> IF Cardinality(temas) > 0 THEN 1 ELSE 0]

\* ner_pipeline(texto): the (entity_group, word) spans of the tagger
ner_pipeline(texto) ==
    CASE texto = "nota_irrelevante" -> {}
      [] texto = "nota_sin_lugar" -> {<<"PER", LiAcento>>}
      [] texto = "nota_coahuila" ->
            {<<"PER", LiAcento>>, <<"ORG", li>>, <<"ORG", liEspacio>>, <<"LOC", Co>>,
             <<"LOC", <<"C">>>>}

\* clasificar_riesgo_oportunidad(texto): (riesgo, oportunidad)
clasificar_riesgo_oportunidad(texto) ==
    CASE texto = "nota_irrelevante" -> <<0, 0>>
      [] texto = "nota_sin_lugar" -> <<1, 0>>
      [] texto = "nota_coahuila" -> <<1, 1>>

-----------------------------------------------------------------------------
(* Ingestion                                                               *)

\* INSERT OR IGNORE INTO noticias (titulo, descripcion, url, fecha, medio, fecha_scraping)
\* under UNIQUE(url); the other columns take their defaults
NuevaNoticia(id, url, fecha, medio, texto) ==
    [id |-> id, url |-> url, fecha |-> fecha, medio |-> medio, texto |-> texto,
     relevante |-> NULL_INT, riesgo |-> 0, oportunidad |-> 0,
     nivel_geografico |-> NULL, region_id |-> NULL_INT,
     requiere_analisis_profundo |-> 0,
     procesado_temas |-> 0, procesado_ner |-> 0, procesado_riesgo |-> 0]

\* guardar_noticias_rss with a feed of one entry.  URLs are numbered in the
\* order of their first appearance.
GuardarNoticiasRss(url, fecha, medio, texto) ==
    /\ IF \E n \in noticias : n.url = url
       THEN UNCHANGED <<noticias, seq_noticias>>
       ELSE /\ noticias' = noticias \cup
                    {NuevaNoticia(seq_noticias + 1, url, fecha, medio, texto)}
            /\ seq_noticias' = seq_noticias + 1
    /\ ultima' = OtraOp
    /\ UNCHANGED <<noticia_tema, noticia_entidad, varsEntidades, varsResolver,
                   varsAgregacion, varsConsultas>>

-----------------------------------------------------------------------------
(* Topic stage                                                             *)

\* INSERT OR IGNORE INTO noticia_tema (noticia_id, tema_id, score) VALUES (?, ?, 1)
\* under PRIMARY KEY (noticia_id, tema_id)
InsertOrIgnoreTema(tabla, noticia_id, tema_id) ==
    IF \E r \in tabla : r.noticia_id = noticia_id /\ r.tema_id = tema_id THEN tabla
    ELSE tabla \cup {[noticia_id |-> noticia_id, tema_id |-> tema_id, score |-> 1]}

\* Python iterates a set in an order of its own: any one order of the set
RECURSIVE EnOrden(_)
EnOrden(S) ==
    IF S = {} THEN <<>> ELSE LET x == CHOOSE x \in S : TRUE IN <<x>> \o EnOrden(S \ {x})

RECURSIVE EnlazarTemas(_, _, _)
EnlazarTemas(tabla, noticia_id, temas_list) ==
    IF temas_list = <<>> THEN tabla
    ELSE EnlazarTemas(InsertOrIgnoreTema(tabla, noticia_id, tema_map[Head(temas_list)]),
                      noticia_id, Tail(temas_list))

\* the rows of a table in rowid order
RECURSIVE PorId(_)
PorId(S) ==
    IF S = {} THEN <<>>
    ELSE LET n == CHOOSE n \in S : \A m \in S : n.id <= m.id IN <<n>> \o PorId(S \ {n})

RECURSIVE EnlazarTemasDeTodas(_, _)
EnlazarTemasDeTodas(tabla, pendientes) ==
    IF pendientes = <<>> THEN tabla
    ELSE EnlazarTemasDeTodas(
            EnlazarTemas(tabla, Head(pendientes).id,
                         EnOrden(clasificar_noticia(Head(pendientes).texto).temas)),
            Tail(pendientes))

\* UPDATE noticias SET ..., procesado_temas = 1 with no WHERE clause, once for
\* each pending item in rowid order: every row ends with the values of the last
ActualizarTemasSinWhere(tn, pendientes) ==
    IF pendientes = {} THEN tn
    ELSE LET ult == CHOOSE n \in pendientes : \A m \in pendientes : m.id <= n.id IN
         {[n EXCEPT !.relevante = clasificar_noticia(ult.texto).relevante,
                    !.procesado_temas = 1] : n \in tn}

\* UPDATE noticias SET temas = ?, score = ?, relevante = ?, procesado_temas = 1
\* WHERE id = ?, once for each pending item
ActualizarTemas(tn, pendientes) ==
    {IF n \in pendientes
     THEN [n EXCEPT !.relevante = clasificar_noticia(n.texto).relevante,
                    !.procesado_temas = 1]
     ELSE n : n \in tn}

\* clasificar_noticias(): every item with procesado_temas unset gets its
\* classification, its flag and its noticia_tema rows, in one transaction.
ClasificarNoticias ==
    LET pendientes == {n \in noticias : n.procesado_temas = 0} IN
    /\ noticias' = ActualizarTemas(noticias, pendientes)
    /\ noticia_tema' = EnlazarTemasDeTodas(noticia_tema, PorId(pendientes))
    /\ ultima' = OtraOp
    /\ UNCHANGED <<seq_noticias, noticia_entidad, varsEntidades, varsResolver,
                   varsAgregacion, varsConsultas>>

-----------------------------------------------------------------------------
(* Risk stage                                                              *)

\* Variant: the risk stage takes only the items the NER stage has processed.
FilasTrasNer(tn) ==
    {n \in tn : n.relevante = 1 /\ n.procesado_ner = 1 /\ n.procesado_riesgo = 0}

\* SELECT id, titulo, descripcion FROM noticias
\* WHERE relevante = 1 AND (procesado_riesgo = 0 OR procesado_riesgo IS NULL)
FilasPorEvaluar(tn) == {n \in tn : n.relevante = 1 /\ n.procesado_riesgo = 0}

\* UPDATE noticias SET riesgo = ?, oportunidad = ?, procesado_riesgo = 1
\* WHERE id = ?, once for each selected item
ActualizarRiesgo(tn, filas) ==
    {IF n \in filas
     THEN [n EXCEPT !.riesgo = clasificar_riesgo_oportunidad(n.texto)[1],
                    !.oportunidad = clasificar_riesgo_oportunidad(n.texto)[2],
                    !.procesado_riesgo = 1]
     ELSE n : n \in tn}

\* clasificar_riesgo_oportunidad_db(): every relevant item with procesado_riesgo unset
ClasificarRiesgoOportunidadDb ==
    /\ noticias' = ActualizarRiesgo(noticias, FilasPorEvaluar(noticias))
    /\ ultima' = OtraOp
    /\ UNCHANGED <<seq_noticias, noticia_tema, noticia_entidad, varsEntidades,
                   varsResolver, varsAgregacion, varsConsultas>>

-----------------------------------------------------------------------------
(* Geography                                                               *)

\* the "geografia" section of the keyword configuration
GeoYaml ==
    [estado_objetivo |-> Co, estados_mexico |-> {Co}, paises_clave |-> {mexico, US},
     empresas_clave |-> {FoCo}]

\* cargar_config_geografia(): the target state is only lower-cased, the lists
\* are normalized
ConfigGeografia(yaml) ==
    [estado_objetivo |-> LowerSeq(yaml.estado_objetivo),
     estados_mexico |-> {normalizar_texto(e) : e \in yaml.estados_mexico},
     paises_clave |-> {normalizar_texto(x) : x \in yaml.paises_clave},
     empresas_clave |-> {normalizar_texto(c) : c \in yaml.empresas_clave}]

cargar_config_geografia == ConfigGeografia(GeoYaml)

\* SELECT nombre_normalizado, id FROM regiones (seeded states and countries)
region_map == (normalizar_texto(Co) :> 1) @@ (normalizar_texto(US) :> 2)

PaisesNoMexico(config) == {x \in config.paises_clave : x \notin {mexico, mexicoAcento}}

inferir_nivel_geografico(lugares, config) ==
    LET lugares_norm == {normalizar_texto(l) : l \in lugares} IN
    IF \E x \in PaisesNoMexico(config) : x \in lugares_norm THEN "internacional"
    ELSE IF config.estado_objetivo \in lugares_norm THEN "estatal"
    ELSE IF \E e \in config.estados_mexico : e \in lugares_norm THEN "nacional"
    ELSE "indeterminado"

\* get_region_id: the first place, in the iteration order of the set, found in region_map
RECURSIVE get_region_id(_, _)
get_region_id(lugares, rmap) ==
    IF lugares = <<>> THEN NULL_INT
    ELSE IF normalizar_texto(Head(lugares)) \in DOMAIN rmap
         THEN rmap[normalizar_texto(Head(lugares))]
         ELSE get_region_id(Tail(lugares), rmap)

\* Variant: only a foreign key country sets the flag.
RequiereSoloPorPais(lugares, organizaciones, config) ==
    LET lug_norm == {normalizar_texto(l) : l \in lugares} IN
    IF \E x \in PaisesNoMexico(config) : x \in lug_norm THEN 1 ELSE 0

requiere_analisis(lugares, organizaciones, config) ==
    LET org_norm == {normalizar_texto(o) : o \in organizaciones}
        lug_norm == {normalizar_texto(l) : l \in lugares} IN
    IF \E e \in config.empresas_clave : e \in org_norm THEN 1
    ELSE IF \E x \in PaisesNoMexico(config) : x \in lug_norm THEN 1
    ELSE 0

-----------------------------------------------------------------------------
(* NER stage                                                               *)

\* Variant: a plain INSERT keyed by the implicit rowid only.
InsertEnlace(tabla, noticia_id, entidad_id) ==
    tabla \cup {[rowid |-> Cardinality(tabla) + 1, noticia_id |-> noticia_id,
                 entidad_id |-> entidad_id, rol |-> "mencionado", frecuencia |-> 1]}

\* INSERT OR IGNORE INTO noticia_entidad (noticia_id, entidad_id, rol)
\* VALUES (?, ?, 'mencionado') under PRIMARY KEY (noticia_id, entidad_id);
\* frecuencia takes its default 1
InsertOrIgnoreEnlace(tabla, noticia_id, entidad_id) ==
    IF \E r \in tabla : r.noticia_id = noticia_id /\ r.entidad_id = entidad_id THEN tabla
    ELSE tabla \cup {[rowid |-> Cardinality(tabla) + 1, noticia_id |-> noticia_id,
                      entidad_id |-> entidad_id, rol |-> "mencionado", frecuencia |-> 1]}

\* the stripped words of one entity_group, single characters skipped
Valores(entidades_ner, etiqueta) ==
    {Strip(e[2]) : e \in {x \in entidades_ner : x[1] = etiqueta /\ Len(Strip(x[2])) >= 2}}

RECURSIVE ConTipo(_, _)
ConTipo(nombres, tipo) ==
    IF nombres = <<>> THEN <<>> ELSE <<<<tipo, Head(nombres)>>>> \o ConTipo(Tail(nombres), tipo)

\* all_entities: personas, then organizaciones, then lugares
TodasLasEntidades(personas, organizaciones, lugares) ==
    ConTipo(personas, "PER") \o ConTipo(organizaciones, "ORG") \o ConTipo(lugares, "LOC")

\* the loop over all_entities of one item: resolve, then link
RECURSIVE EnlazarEntidades(_, _, _)
EnlazarEntidades(st, noticia_id, pares) ==
    IF pares = <<>> THEN st
    ELSE LET r == get_or_create_entidad(st.entidades, st.entidad_alias, st.alias_map,
                                        Head(pares)[2], Head(pares)[1]) IN
         EnlazarEntidades(
            [entidades |-> r.entidades, entidad_alias |-> r.entidad_alias,
             alias_map |-> r.alias_map,
             noticia_entidad |-> IF r.ret # 0
                                 THEN InsertOrIgnoreEnlace(st.noticia_entidad, noticia_id, r.ret)
                                 ELSE st.noticia_entidad],
            noticia_id, Tail(pares))

\* the body of the loop over the pending items: the item's fields after the UPDATE
NoticiaConNer(n, config) ==
    LET entidades_ner == ner_pipeline(n.texto)
        organizaciones == Valores(entidades_ner, "ORG")
        lugares == EnOrden(Valores(entidades_ner, "LOC")) IN
    [n EXCEPT !.nivel_geografico = inferir_nivel_geografico(Valores(entidades_ner, "LOC"), config),
              !.region_id = get_region_id(lugares, region_map),
              !.requiere_analisis_profundo =
                    requiere_analisis(Valores(entidades_ner, "LOC"), organizaciones, config),
              !.procesado_ner = 1]

RECURSIVE EnlazarEntidadesDeTodas(_, _)
EnlazarEntidadesDeTodas(st, pendientes) ==
    IF pendientes = <<>> THEN st
    ELSE LET entidades_ner == ner_pipeline(Head(pendientes).texto) IN
         EnlazarEntidadesDeTodas(
            EnlazarEntidades(st, Head(pendientes).id,
                TodasLasEntidades(EnOrden(Valores(entidades_ner, "PER")),
                                  EnOrden(Valores(entidades_ner, "ORG")),
                                  EnOrden(Valores(entidades_ner, "LOC")))),
            Tail(pendientes))

\* UPDATE noticias SET nivel_geografico = ?, region_id = ?,
\* requiere_analisis_profundo = ?, procesado_ner = 1 WHERE id = ?, once for each
\* selected item
ActualizarNer(tn, pendientes) ==
    {IF n \in pendientes THEN NoticiaConNer(n, cargar_config_geografia) ELSE n : n \in tn}

\* Variant: every item with procesado_ner unset, relevant or not.
NoticiasParaNerSinRelevante(tn) == {n \in tn : n.procesado_ner = 0}

\* SELECT id, titulo, descripcion FROM noticias
\* WHERE relevante = 1 AND (procesado_ner = 0 OR procesado_ner IS NULL)
NoticiasParaNer(tn) == {n \in tn : n.relevante = 1 /\ n.procesado_ner = 0}

\* ejecutar_ner(): loads the alias index, then every relevant item with
\* procesado_ner unset gets its geography, its flag and its entity links.
EjecutarNer ==
    LET pendientes == NoticiasParaNer(noticias) IN
    \E st \in {EnlazarEntidadesDeTodas(
                    [entidades |-> entidades, entidad_alias |-> entidad_alias,
                     alias_map |-> CargarAliasMap(entidad_alias),
                     noticia_entidad |-> noticia_entidad],
                    PorId(pendientes))} :
    /\ noticias' = ActualizarNer(noticias, pendientes)
    /\ entidades' = st.entidades
    /\ entidad_alias' = st.entidad_alias
    /\ noticia_entidad' = st.noticia_entidad
    /\ ultima' = OtraOp
    /\ UNCHANGED <<seq_noticias, noticia_tema, varsResolver, varsAgregacion, varsConsultas>>

-----------------------------------------------------------------------------
(* Daily aggregation                                                       *)

\* SUM over the rows of a set, f giving the summand of each row
RECURSIVE Suma(_, _)
Suma(S, f) ==
    IF S = {} THEN 0 ELSE LET x == CHOOSE x \in S : TRUE IN f[x] + Suma(S \ {x}, f)

Cuantas(S) == Cardinality(S)

\* WHERE DATE(fecha) = ?
DeFecha(tn, fecha) == {n \in tn : n.fecha = fecha}

FilaDiaria(tn, fecha) ==
    LET N == DeFecha(tn, fecha) IN
    [fecha |-> fecha,
     total_noticias |-> Cuantas(N),
     total_relevantes |-> Cuantas({n \in N : n.relevante = 1}),
     total_riesgo |-> Cuantas({n \in N : n.riesgo = 1}),
     total_oportunidad |-> Cuantas({n \in N : n.oportunidad = 1}),
     total_mixto |-> Cuantas({n \in N : n.riesgo = 1 /\ n.oportunidad = 1}),
     medios_activos |-> Cuantas({n.medio : n \in N}),
     requieren_analisis |-> Cuantas({n \in N : n.requiere_analisis_profundo = 1})]

\* Variant: the counters of the new row are added to those of the row it replaces.
AcumularDiaria(tabla, tn, fecha) ==
    IF DeFecha(tn, fecha) = {} THEN tabla
    ELSE LET nueva == FilaDiaria(tn, fecha)
             viejas == {r \in tabla : r.fecha = fecha} IN
         {r \in tabla : r.fecha # fecha} \cup
            {[nueva EXCEPT !.total_noticias =
                @ + Suma(viejas, [r \in viejas |-> r.total_noticias])]}

\* calcular_agregacion_diaria: INSERT OR REPLACE ... SELECT ... GROUP BY DATE(fecha)
\* under PRIMARY KEY (fecha); the SELECT gives no row for a date without items.
\* fecha_calculo (a timestamp) is left out.
calcular_agregacion_diaria(tabla, tn, fecha) ==
    IF DeFecha(tn, fecha) = {} THEN tabla
    ELSE {r \in tabla : r.fecha # fecha} \cup {FilaDiaria(tn, fecha)}

\* noticias n JOIN noticia_tema nt ON n.id = nt.noticia_id WHERE DATE(n.fecha) = ?
JoinTema(tn, nt, fecha) ==
    {<<n, l>> \in DeFecha(tn, fecha) \X nt : n.id = l.noticia_id}

FilasTema(tn, nt, fecha) ==
    LET J == JoinTema(tn, nt, fecha) IN
    {LET G == {j \in J : j[2].tema_id = t} IN
        [fecha |-> fecha, tema_id |-> t,
         total_noticias |-> Cuantas(G),
         total_riesgo |-> Cuantas({j \in G : j[1].riesgo = 1}),
         total_oportunidad |-> Cuantas({j \in G : j[1].oportunidad = 1}),
         score_promedio |-> Suma(G, [j \in G |-> j[2].score]) \div Cuantas(G)]
     : t \in {j[2].tema_id : j \in J}}

\* Variant: DELETE FROM agregacion_tema_diaria with no WHERE clause, then the INSERT.
TemaDiariaSinWhere(tabla, tn, nt, fecha) == FilasTema(tn, nt, fecha)

\* calcular_agregacion_tema_diaria: DELETE the rows of the date, INSERT the groups
calcular_agregacion_tema_diaria(tabla, tn, nt, fecha) ==
    {r \in tabla : r.fecha # fecha} \cup FilasTema(tn, nt, fecha)

Coalesce(x, nulo, defecto) == IF x = nulo THEN defecto ELSE x

\* Variant: the region id is grouped and stored as it is.
RegionSinSentinela(n) == n.region_id

\* COALESCE(region_id, -1)
RegionConSentinela(n) == Coalesce(n.region_id, NULL_INT, -1)

\* GROUP BY DATE(fecha), COALESCE(region_id, -1), nivel_geografico: the grouping
\* uses the column nivel_geografico itself, the SELECT list its COALESCE
GruposRegion(tn, fecha) ==
    {<<RegionConSentinela(n), n.nivel_geografico>> :
        n \in {m \in DeFecha(tn, fecha) : m.relevante = 1}}

FilaRegion(tn, fecha, g) ==
    LET G == {n \in DeFecha(tn, fecha) :
                /\ n.relevante = 1
                /\ RegionConSentinela(n) = g[1]
                /\ n.nivel_geografico = g[2]} IN
    [fecha |-> fecha, region_id |-> g[1],
     nivel_geografico |-> Coalesce(g[2], NULL, "indeterminado"),
     total_noticias |-> Cuantas(G),
     total_riesgo |-> Cuantas({n \in G : n.riesgo = 1}),
     total_oportunidad |-> Cuantas({n \in G : n.oportunidad = 1})]

\* two groups give rows with one PRIMARY KEY (fecha, region_id, nivel_geografico)
ConflictoRegion(tn, fecha) ==
    \E g, h \in GruposRegion(tn, fecha) :
        /\ g # h
        /\ g[1] = h[1]
        /\ Coalesce(g[2], NULL, "indeterminado") = Coalesce(h[2], NULL, "indeterminado")

\* calcular_agregacion_region_diaria: DELETE, INSERT the groups, commit; on a
\* key conflict the INSERT raises and the connection closes without commit.
calcular_agregacion_region_diaria(tabla, tn, fecha) ==
    IF ConflictoRegion(tn, fecha) THEN [ok |-> FALSE, tabla |-> tabla]
    ELSE [ok |-> TRUE,
          tabla |-> {r \in tabla : r.fecha # fecha} \cup
                    {FilaRegion(tn, fecha, g) : g \in GruposRegion(tn, fecha)}]

\* noticias n JOIN noticia_entidad ne ON n.id = ne.noticia_id WHERE DATE(n.fecha) = ?
JoinEntidad(tn, ne, fecha) ==
    {<<n, l>> \in DeFecha(tn, fecha) \X ne : n.id = l.noticia_id}

FilasEntidad(tn, ne, fecha) ==
    LET J == JoinEntidad(tn, ne, fecha) IN
    {LET G == {j \in J : j[2].entidad_id = e} IN
        [fecha |-> fecha, entidad_id |-> e,
         menciones |-> Cuantas(G),
         noticias_riesgo |-> Cuantas({j \in G : j[1].riesgo = 1}),
         noticias_oportunidad |-> Cuantas({j \in G : j[1].oportunidad = 1}),
         frecuencia_total |-> Suma(G, [j \in G |-> j[2].frecuencia])]
     : e \in {j[2].entidad_id : j \in J}}

\* calcular_agregacion_entidad_diaria: DELETE the rows of the date, INSERT the groups
calcular_agregacion_entidad_diaria(tabla, tn, ne, fecha) ==
    {r \in tabla : r.fecha # fecha} \cup FilasEntidad(tn, ne, fecha)

FilasMedio(tn, fecha) ==
    LET N == DeFecha(tn, fecha) IN
    {LET G == {n \in N : n.medio = m} IN
        [fecha |-> fecha, medio |-> m,
         total_noticias |-> Cuantas(G),
         total_relevantes |-> Cuantas({n \in G : n.relevante = 1}),
         total_riesgo |-> Cuantas({n \in G : n.riesgo = 1}),
         total_oportunidad |-> Cuantas({n \in G : n.oportunidad = 1})]
     : m \in {n.medio : n \in N}}

\* calcular_agregacion_medio_diaria: DELETE the rows of the date, INSERT the groups
calcular_agregacion_medio_diaria(tabla, tn, fecha) ==
    {r \in tabla : r.fecha # fecha} \cup FilasMedio(tn, fecha)

\* The five aggregate tables as one value.
Agregados ==
    [diaria |-> agregacion_diaria, tema |-> agregacion_tema_diaria,
     region |-> agregacion_region_diaria, entidad |-> agregacion_entidad_diaria,
     medio |-> agregacion_medio_diaria]

\* ejecutar_agregaciones(fecha): the five computations in order, each in a
\* connection of its own with its own commit; an exception of one ends the call
\* and leaves the commits of the earlier ones.
ejecutar_agregaciones(ag, tn, nt, ne, fecha) ==
    LET diaria == calcular_agregacion_diaria(ag.diaria, tn, fecha)
        tema == calcular_agregacion_tema_diaria(ag.tema, tn, nt, fecha)
        region == calcular_agregacion_region_diaria(ag.region, tn, fecha) IN
    IF region.ok
    THEN [ok |-> TRUE,
          ag |-> [diaria |-> diaria, tema |-> tema, region |-> region.tabla,
                  entidad |-> calcular_agregacion_entidad_diaria(ag.entidad, tn, ne, fecha),
                  medio |-> calcular_agregacion_medio_diaria(ag.medio, tn, fecha)]]
    ELSE [ok |-> FALSE,
          ag |-> [diaria |-> diaria, tema |-> tema, region |-> ag.region,
                  entidad |-> ag.entidad, medio |-> ag.medio]]

PonerAgregados(ag) ==
    /\ agregacion_diaria' = ag.diaria
    /\ agregacion_tema_diaria' = ag.tema
    /\ agregacion_region_diaria' = ag.region
    /\ agregacion_entidad_diaria' = ag.entidad
    /\ agregacion_medio_diaria' = ag.medio

\* One call of ejecutar_agregaciones(fecha).
EjecutarAgregaciones(fecha) ==
    \E r \in {ejecutar_agregaciones(Agregados, noticias, noticia_tema, noticia_entidad, fecha)} :
    /\ PonerAgregados(r.ag)
    /\ ultima' = [op |-> "ejecutar_agregaciones", fecha |-> fecha, ok |-> r.ok,
                  repetida |-> ultima.op = "ejecutar_agregaciones" /\ ultima.fecha = fecha,
                  fecha_inicio |-> 0, fecha_fin |-> 0, hechas |-> <<fecha>>]
    /\ UNCHANGED <<varsNoticias, varsEntidades, varsResolver, varsConsultas>>

\* ascending order of a set of dates
RECURSIVE Ordenar(_)
Ordenar(S) ==
    IF S = {} THEN <<>>
    ELSE LET x == CHOOSE x \in S : \A y \in S : x <= y IN <<x>> \o Ordenar(S \ {x})

\* SELECT DISTINCT DATE(fecha) FROM noticias WHERE fecha IS NOT NULL ORDER BY fecha
get_fechas_con_datos(tn) == Ordenar({n.fecha : n \in tn})

\* the loop with the call inside try/except: after an exception it goes on
\* with the next date
RECURSIVE AgregarFechasSiguiendo(_, _, _, _, _)
AgregarFechasSiguiendo(ag, tn, nt, ne, fechas) ==
    IF fechas = <<>> THEN [ok |-> TRUE, ag |-> ag, fecha |-> 0, hechas |-> <<>>]
    ELSE LET r == ejecutar_agregaciones(ag, tn, nt, ne, Head(fechas))
             resto == AgregarFechasSiguiendo(r.ag, tn, nt, ne, Tail(fechas)) IN
         IF r.ok THEN [resto EXCEPT !.hechas = <<Head(fechas)>> \o @]
         ELSE [resto EXCEPT !.ok = FALSE, !.fecha = Head(fechas),
                            !.hechas = <<Head(fechas)>> \o @]

\* for fecha in fechas_con_datos: ejecutar_agregaciones(fecha); an exception
\* leaves the loop and the call
RECURSIVE AgregarFechas(_, _, _, _, _)
AgregarFechas(ag, tn, nt, ne, fechas) ==
    IF fechas = <<>> THEN [ok |-> TRUE, ag |-> ag, fecha |-> 0, hechas |-> <<>>]
    ELSE LET r == ejecutar_agregaciones(ag, tn, nt, ne, Head(fechas)) IN
         IF r.ok
         THEN LET resto == AgregarFechas(r.ag, tn, nt, ne, Tail(fechas)) IN
              [resto EXCEPT !.hechas = <<Head(fechas)>> \o @]
         ELSE [ok |-> FALSE, ag |-> r.ag, fecha |-> Head(fechas),
               hechas |-> <<Head(fechas)>>]

\* the dates with data inside the range; a bound of None does not filter
FechasEnRango(tn, fecha_inicio, fecha_fin) ==
    SelectSeq(get_fechas_con_datos(tn),
              LAMBDA f : /\ (fecha_inicio # NULL_INT => f >= fecha_inicio)
                         /\ (fecha_fin # NULL_INT => f <= fecha_fin))

\* One call of backfill_agregaciones(fecha_inicio, fecha_fin); `fecha` records
\* the date whose aggregation raised, if one did, and `hechas` the dates
\* ejecutar_agregaciones was called with, in the order of the calls; `repetida`
\* tells that the backfill before it raised and had the same range.
BackfillAgregaciones(fecha_inicio, fecha_fin) ==
    \E r \in {AgregarFechas(Agregados, noticias, noticia_tema, noticia_entidad,
                             FechasEnRango(noticias, fecha_inicio, fecha_fin))} :
    /\ PonerAgregados(r.ag)
    /\ ultima' = [op |-> "backfill_agregaciones", fecha |-> r.fecha, ok |-> r.ok,
                  repetida |-> /\ fallo # SinFallo
                               /\ fallo.fecha_inicio = fecha_inicio
                               /\ fallo.fecha_fin = fecha_fin,
                  fecha_inicio |-> fecha_inicio, fecha_fin |-> fecha_fin,
                  hechas |-> r.hechas]
    /\ fallo' = IF r.ok THEN SinFallo
                ELSE [fecha_inicio |-> fecha_inicio, fecha_fin |-> fecha_fin,
                      fecha |-> r.fecha]
    /\ UNCHANGED <<varsNoticias, varsEntidades, varsResolver, geo, paso, comparacion, anomalias>>

\* An item leaves the store (DELETE FROM noticias WHERE id = ?, issued outside
\* the pipeline).  Foreign keys are not enforced on the connection, so the
\* link rows of the item stay.
EliminarNoticia(id) ==
    /\ \E n \in noticias : n.id = id
    /\ noticias' = {n \in noticias : n.id # id}
    /\ ultima' = OtraOp
    /\ UNCHANGED <<seq_noticias, noticia_tema, noticia_entidad, varsEntidades,
                   varsResolver, varsAgregacion, varsConsultas>>

\* INSERT OR IGNORE drops an entry whose URL is stored, whatever the entry
\* carries: such an entry is taken with the date, source and text stored
ComoGuardada(url, fecha, e) ==
    \A n \in noticias :
        n.url = url => (n.fecha = fecha /\ n.medio = e.medio /\ n.texto = e.texto)

\* The ingestion and the three stages.
\* max bounds the URLs the feeds carry and the ids the store hands out
Etapas(max, entradas) ==
    \/ \E url \in 1..max, fecha \in Fechas, e \in entradas :
        /\ url <= seq_noticias + 1
        /\ (\A n \in noticias : n.url # url) => seq_noticias < max
        /\ ComoGuardada(url, fecha, e)
        /\ GuardarNoticiasRss(url, fecha, e.medio, e.texto)
    \/ ClasificarNoticias
    \/ EjecutarNer
    \/ ClasificarRiesgoOportunidadDb

NextEtapas == Etapas(MaxNoticias, Entradas)

\* Ingestion and stages without the aggregation.
SpecEtapas == Init /\ [][NextEtapas]_vars

\* The pipeline operations in any order.
Next ==
    \/ NextEtapas
    \/ \E fecha \in Fechas : EjecutarAgregaciones(fecha)

Spec == Init /\ [][Next]_vars

MaxNoticiasBackfill == 3

\* The stages and the backfill of all the history.
NextBackfill ==
    \/ Etapas(MaxNoticiasBackfill, Entradas)
    \/ BackfillAgregaciones(NULL_INT, NULL_INT)

SpecBackfill == Init /\ [][NextBackfill]_vars

\* The pipeline with items removed from the store between its operations.
NextMantenimiento ==
    \/ Next
    \/ \E id \in 1..MaxNoticias : EliminarNoticia(id)

SpecMantenimiento == Init /\ [][NextMantenimiento]_vars

-----------------------------------------------------------------------------
(* Properties of the entity resolver                                       *)

\* C6: within one run, all resolutions of mentions that normalize to the same
\* text (the same mention twice, or surface forms that differ by case,
\* surrounding whitespace or diacritics) return the same entity id, whatever
\* the other instance resolves in between.
ResolverDeterminista ==
    \A i \in Instancias : \A p, q \in resueltos[i] :
        normalizar_texto(p[1]) = normalizar_texto(q[1]) => p[2] = q[2]

\* Two different surface forms with one normalization were resolved in one run,
\* to one id, while the other instance was resolving too.
ResolverDeterministaTestigo ==
    \E i, j \in Instancias :
        /\ i # j
        /\ resueltos[j] # {}
        /\ \E p, q \in resueltos[i] :
            /\ p[1] # q[1]
            /\ normalizar_texto(p[1]) = normalizar_texto(q[1])
            /\ p[2] = q[2]

\* C7: each alias of the persisted alias table belongs to exactly one row (one
\* entity), in every state reached by interleaved resolver instances, and no
\* step changes or removes a row of the alias table: inserting an alias that
\* exists leaves the table as it was.
AliasUnico ==
    /\ [](\A a, b \in entidad_alias : a.alias = b.alias => a = b)
    /\ [][/\ \A a \in entidad_alias : a \in entidad_alias'
          /\ (\E a \in entidad_alias : a.alias = normalizar_texto(llamada'.nombre))
                => entidad_alias' = entidad_alias]_vars

\* An entity was created whose normalized name was already the alias of another
\* entity: its alias insert was attempted and ignored.
AliasUnicoTestigo ==
    \E e \in entidades : \E a \in entidad_alias :
        /\ a.alias = normalizar_texto(e.nombre_canonico)
        /\ a.entidad_id # e.id
        /\ llamada.ret = e.id

\* C8: a call for a mention whose normalized text is not in the caller's index
\* and whose canonical name is already in entidades returns the id of that
\* entity.
ConflictoDevuelveExistente ==
    (~llamada.en_indice /\ llamada.existia # 0) => llamada.ret = llamada.existia

\* Such a call happened for an entity created during the runs (not a seeded one).
ConflictoDevuelveExistenteTestigo ==
    /\ ~llamada.en_indice
    /\ llamada.existia \notin {0} \cup {e.id : e \in EntidadesSemilla}
    /\ llamada.ret = llamada.existia

\* C9: every key of the alias index of a running instance is a row of the alias
\* table with the same entity id.
IndiceEsImagenDeTabla ==
    \A i \in en_run : \A k \in DOMAIN alias_map[i] :
        \E a \in entidad_alias : a.alias = k /\ a.entidad_id = alias_map[i][k]

-----------------------------------------------------------------------------
(* Properties of the aggregation                                           *)

\* the rows keyed by one date in the five aggregate tables
FilasDe(ag, fecha) ==
    [diaria |-> {r \in ag.diaria : r.fecha = fecha},
     tema |-> {r \in ag.tema : r.fecha = fecha},
     region |-> {r \in ag.region : r.fecha = fecha},
     entidad |-> {r \in ag.entidad : r.fecha = fecha},
     medio |-> {r \in ag.medio : r.fecha = fecha}]

\* the rows of one date computed from the items and links as they are now
FilasCalculadas(tn, nt, ne, fecha) ==
    [diaria |-> IF DeFecha(tn, fecha) = {} THEN {} ELSE {FilaDiaria(tn, fecha)},
     tema |-> FilasTema(tn, nt, fecha),
     region |-> {FilaRegion(tn, fecha, g) : g \in GruposRegion(tn, fecha)},
     entidad |-> FilasEntidad(tn, ne, fecha),
     medio |-> FilasMedio(tn, fecha)]

\* C1: when ejecutar_agregaciones(D) runs directly after ejecutar_agregaciones(D),
\* with nothing in between, the second run leaves the rows of D in the five
\* aggregate tables exactly as the first run left them.
AgregacionIdempotente ==
    [][ultima'.repetida =>
        FilasDe(Agregados', ultima'.fecha) = FilasDe(Agregados, ultima'.fecha)]_vars

\* a second run in a row on a date that has rows in all five tables
AgregacionIdempotenteTestigo ==
    /\ ultima.repetida
    /\ ultima.ok
    /\ \A t \in {"diaria", "tema", "region", "entidad", "medio"} :
          FilasDe(Agregados, ultima.fecha)[t] # {}
    /\ \E r \in agregacion_diaria : r.fecha = ultima.fecha /\ r.total_noticias > 1

\* C2: a run of ejecutar_agregaciones(D) in which a computation fails leaves the
\* rows of D in all five aggregate tables as they were before the run.
AgregacionAtomica ==
    [][(ultima'.op = "ejecutar_agregaciones" /\ ~ultima'.ok) =>
        FilasDe(Agregados', ultima'.fecha) = FilasDe(Agregados, ultima'.fecha)]_vars

BackfillCompleto ==
    (/\ ultima.op = "backfill_agregaciones"
     /\ ultima.fecha_inicio = NULL_INT
     /\ ultima.fecha_fin = NULL_INT) =>
        /\ \A n \in noticias : \E r \in agregacion_diaria : r.fecha = n.fecha
        /\ Suma(agregacion_diaria, [r \in agregacion_diaria |-> r.total_noticias])
              = Cardinality(noticias)

\* C5: no row of the region table has a null region id, and after a completed
\* ejecutar_agregaciones(D) the rows of D under region id -1 count exactly the
\* relevant items of D without a region.
SentinelaRegion ==
    /\ \A r \in agregacion_region_diaria : r.region_id # NULL_INT
    /\ (ultima.op = "ejecutar_agregaciones" /\ ultima.ok) =>
          LET bajoSentinela == {r \in agregacion_region_diaria :
                                  r.fecha = ultima.fecha /\ r.region_id = -1} IN
          Suma(bajoSentinela, [r \in bajoSentinela |-> r.total_noticias]) =
            Cardinality({n \in DeFecha(noticias, ultima.fecha) :
                           n.relevante = 1 /\ n.region_id = NULL_INT})

\* two relevant items without a region counted in one sentinel row
SentinelaRegionTestigo ==
    /\ ultima.op = "ejecutar_agregaciones"
    /\ ultima.ok
    /\ \E r \in agregacion_region_diaria :
          r.fecha = ultima.fecha /\ r.region_id = -1 /\ r.total_noticias = 2

-----------------------------------------------------------------------------
(* Properties of the item-entity links                                     *)

\* C10: there is at most one noticia_entidad row for a pair (item, entity).
UnEnlacePorPar ==
    \A r, q \in noticia_entidad :
        (r.noticia_id = q.noticia_id /\ r.entidad_id = q.entidad_id) => r = q

\* a processed item whose mentions outnumber its links: two of them, of
\* different type and surface form, went to one entity
UnEnlacePorParTestigo ==
    \E n \in noticias :
        /\ n.procesado_ner = 1
        /\ LET enlaces == {r \in noticia_entidad : r.noticia_id = n.id}
               spans == {x \in ner_pipeline(n.texto) : Len(Strip(x[2])) >= 2} IN
           /\ \E x, y \in spans :
                 /\ x[1] # y[1] /\ x[2] # y[2]
                 /\ normalizar_texto(x[2]) = normalizar_texto(y[2])
           /\ Cardinality(enlaces) < Cardinality(spans)
           /\ enlaces # {}

-----------------------------------------------------------------------------
(* Properties of the NER stage                                             *)

\* the (type, word) mentions of an item that the link loop goes through
MencionesDe(n) ==
    LET spans == ner_pipeline(n.texto) IN
    UNION {{<<t, v>> : v \in Valores(spans, t)} : t \in {"PER", "ORG", "LOC"}}

\* C11: the frecuencia of the link of an item to an entity counts the mentions
\* of the item that resolve to the entity: a repeated mention increments it.
FrecuenciaCuentaMenciones ==
    \A n \in noticias : \A r \in noticia_entidad :
        (n.procesado_ner = 1 /\ r.noticia_id = n.id) =>
            r.frecuencia =
                Cardinality({m \in MencionesDe(n) :
                    \E a \in entidad_alias :
                        /\ a.alias = normalizar_texto(m[2])
                        /\ a.entidad_id = r.entidad_id})

-----------------------------------------------------------------------------
(* The geography functions on their own                                    *)

\* a configuration whose target state carries a diacritic
GeoYamlAcento ==
    [estado_objetivo |-> LiAcento, estados_mexico |-> {Co, LiAcento},
     paises_clave |-> {mexicoAcento, US}, empresas_clave |-> {FoCo}]

GeoYamls == {GeoYaml, GeoYamlAcento}

\* the places and organizations the tagger can report for an item
LugaresDetectables == {Co, US, LiAcento, mexico}
OrganizacionesDetectables == {FoCo, foco, li}

MaxLugares == 2

\* the orders in which the elements of a set can come
Ordenes(S) ==
    {o \in [1..Cardinality(S) -> S] : \A x \in S : \E i \in 1..Cardinality(S) : o[i] = x}

\* the place words of an item in the order the tagger reports them
Detecciones ==
    UNION {Ordenes(S) : S \in {T \in SUBSET LugaresDetectables : Cardinality(T) <= MaxLugares}}

Elementos(s) == {s[i] : i \in 1..Len(s)}

\* The inputs of the geography part of ejecutar_ner for one item: the
\* configuration, the place words in the order of detection and in the order
\* in which the Python set holding them iterates (any order of its elements),
\* and the organization words.
InitGeografia ==
    /\ InitAlmacen
    /\ \E yaml \in GeoYamls, deteccion \in Detecciones,
          organizaciones \in SUBSET OrganizacionesDetectables :
          \E iteracion \in Ordenes(Elementos(deteccion)) :
              geo = [SinGeografia EXCEPT !.yaml = yaml, !.deteccion = deteccion,
                                         !.iteracion = iteracion,
                                         !.organizaciones = organizaciones]

\* The three functions applied to the place and organization words of the item.
InferirGeografia ==
    LET config == ConfigGeografia(geo.yaml)
        lugares == Elementos(geo.deteccion) IN
    /\ ~geo.hecha
    /\ geo' = [geo EXCEPT
                 !.hecha = TRUE,
                 !.nivel = inferir_nivel_geografico(lugares, config),
                 !.region_id = get_region_id(geo.iteracion, region_map),
                 !.requiere = requiere_analisis(lugares, geo.organizaciones, config)]
    /\ UNCHANGED <<varsNoticias, varsEntidades, varsResolver, varsAgregacion, ultima,
                   paso, fallo, comparacion, anomalias>>

NextGeografia == InferirGeografia

SpecGeografia == InitGeografia /\ [][NextGeografia]_vars

\* C12: the level is that of the first rule that matches, in the order: a key
\* country other than Mexico is mentioned, internacional; the target state is
\* mentioned, estatal; a state of the country is mentioned, nacional; otherwise
\* indeterminado.  A name is mentioned when a place word equals it up to case
\* and diacritics.
NivelSegunOrden ==
    geo.hecha =>
        LET lugares == Elementos(geo.deteccion)
            Mencionado(x) == \E l \in lugares : normalizar_texto(l) = normalizar_texto(x) IN
        geo.nivel =
            IF \E p \in geo.yaml.paises_clave :
                   normalizar_texto(p) # mexico /\ Mencionado(p)
            THEN "internacional"
            ELSE IF Mencionado(geo.yaml.estado_objetivo) THEN "estatal"
            ELSE IF \E e \in geo.yaml.estados_mexico : Mencionado(e) THEN "nacional"
            ELSE "indeterminado"

\* C13: the region id is that of the first place word, in the order of
\* detection, whose normalized form is in the region table, and none when no
\* word is in it.
RegionDelPrimerDetectado ==
    geo.hecha =>
        LET EnTabla(i) == normalizar_texto(geo.deteccion[i]) \in DOMAIN region_map
            conRegion == {i \in 1..Len(geo.deteccion) : EnTabla(i)} IN
        geo.region_id =
            IF conRegion = {} THEN NULL_INT
            ELSE LET primero == CHOOSE i \in conRegion : \A j \in conRegion : i <= j IN
                 region_map[normalizar_texto(geo.deteccion[primero])]

\* C14: the flag is 1 exactly when a key organization is among the organization
\* words or a key country other than Mexico is among the place words, names
\* compared up to case and diacritics; otherwise it is 0.
RequiereSegunMenciones ==
    geo.hecha =>
        LET Entre(x, S) == \E m \in S : normalizar_texto(m) = normalizar_texto(x) IN
        geo.requiere =
            IF \/ \E e \in geo.yaml.empresas_clave : Entre(e, geo.organizaciones)
               \/ \E p \in geo.yaml.paises_clave :
                     normalizar_texto(p) # mexico /\ Entre(p, Elementos(geo.deteccion))
            THEN 1 ELSE 0

\* a key organization, written in another case, and no foreign key country
RequiereSegunMencionesTestigo ==
    /\ geo.hecha
    /\ geo.organizaciones = {foco}
    /\ FoCo \in geo.yaml.empresas_clave
    /\ mexico \in Elementos(geo.deteccion)
    /\ US \notin Elementos(geo.deteccion)
    /\ geo.requiere = 1

-----------------------------------------------------------------------------
(* Properties of the stages: what a run leaves alone                       *)

\* the link rows of one item in the two link tables
EnlacesDe(nt, ne, id) ==
    <<{r \in nt : r.noticia_id = id}, {r \in ne : r.noticia_id = id}>>

\* every item whose flag is set keeps its fields and its link rows over the step
MarcoDeEtapa(bandera) ==
    \A n \in noticias :
        n[bandera] = 1 =>
            /\ n \in noticias'
            /\ EnlacesDe(noticia_tema', noticia_entidad', n.id)
                    = EnlacesDe(noticia_tema, noticia_entidad, n.id)

\* the store is the same before and after the step
AlmacenIgual == UNCHANGED <<varsNoticias, varsEntidades>>

\* C15: a run of the topic, the NER or the risk stage changes no item whose own
\* stage flag is set when the run starts, nor its link rows; it leaves no item
\* for the next run of the same stage, and a run that finds no item to process
\* changes nothing in the store, so that two runs in a row do what one does.
EtapaSoloPendientes ==
    [][/\ ClasificarNoticias =>
            /\ MarcoDeEtapa("procesado_temas")
            /\ \A n \in noticias' : n.procesado_temas = 1
            /\ (\A n \in noticias : n.procesado_temas = 1) => AlmacenIgual
       /\ EjecutarNer =>
            /\ MarcoDeEtapa("procesado_ner")
            /\ \A n \in noticias' : n.relevante = 1 => n.procesado_ner = 1
            /\ (\A n \in noticias : n.relevante = 1 => n.procesado_ner = 1) => AlmacenIgual
       /\ ClasificarRiesgoOportunidadDb =>
            /\ MarcoDeEtapa("procesado_riesgo")
            /\ \A n \in noticias' : n.relevante = 1 => n.procesado_riesgo = 1
            /\ (\A n \in noticias : n.relevante = 1 => n.procesado_riesgo = 1)
                    => AlmacenIgual]_vars

\* an item of date 1 went through the three stages and a second, relevant item
\* came in after: the next run of each stage finds one item done and one pending
EtapaSoloPendientesTestigo ==
    \E n, m \in noticias :
        /\ n.procesado_temas = 1 /\ n.procesado_ner = 1 /\ n.procesado_riesgo = 1
        /\ n.relevante = 1 /\ m.relevante = 0
        /\ m.id > n.id /\ m.procesado_temas = 1
        /\ \E r \in noticia_entidad : r.noticia_id = n.id

-----------------------------------------------------------------------------
(* The topic stage, statement by statement                                 *)

\* clasificar_noticias() up to the start of its loop: the connection is opened and
\* the pending rows are fetched; the database as committed stays in persistido
AbrirClasificacion ==
    LET pendientes == PorId({n \in noticias : n.procesado_temas = 0}) IN
    /\ paso.fase = "libre"
    /\ paso' = [fase |-> IF pendientes = <<>> THEN "commit" ELSE "update",
                pendientes |-> pendientes, temas |-> <<>>,
                persistido |-> [noticias |-> noticias, noticia_tema |-> noticia_tema]]
    /\ ultima' = OtraOp
    /\ UNCHANGED <<varsNoticias, varsEntidades, varsResolver, varsAgregacion, geo, fallo, comparacion, anomalias>>

\* where the loop stands once the rows of one item are written
SiguientePaso(p, temas) ==
    IF temas # <<>> THEN [p EXCEPT !.fase = "insert", !.temas = temas]
    ELSE [p EXCEPT !.fase = IF Tail(p.pendientes) = <<>> THEN "commit" ELSE "update",
                   !.pendientes = Tail(p.pendientes), !.temas = <<>>]

\* the UPDATE of the item the loop is at: classification and procesado_temas = 1
SentenciaUpdate ==
    LET n == Head(paso.pendientes) IN
    /\ paso.fase = "update"
    /\ noticias' = ActualizarTemas(noticias, {m \in noticias : m.id = n.id})
    /\ paso' = SiguientePaso(paso, EnOrden(clasificar_noticia(n.texto).temas))
    /\ ultima' = OtraOp
    /\ UNCHANGED <<seq_noticias, noticia_tema, noticia_entidad, varsEntidades,
                   varsResolver, varsAgregacion, geo, fallo, comparacion, anomalias>>

\* one INSERT OR IGNORE INTO noticia_tema of the item the loop is at, inside
\* try/except: it writes the row, or it raises and the loop goes on
SentenciaInsert(lanza) ==
    LET n == Head(paso.pendientes) IN
    /\ paso.fase = "insert"
    /\ noticia_tema' = IF lanza THEN noticia_tema
                       ELSE InsertOrIgnoreTema(noticia_tema, n.id, tema_map[Head(paso.temas)])
    /\ paso' = SiguientePaso(paso, Tail(paso.temas))
    /\ ultima' = OtraOp
    /\ UNCHANGED <<noticias, seq_noticias, noticia_entidad, varsEntidades,
                   varsResolver, varsAgregacion, geo, fallo, comparacion, anomalias>>

\* conn.commit() after the loop
SentenciaCommit ==
    /\ paso.fase = "commit"
    /\ paso' = SinPaso
    /\ ultima' = OtraOp
    /\ UNCHANGED <<varsNoticias, varsEntidades, varsResolver, varsAgregacion, geo, fallo, comparacion, anomalias>>

\* Ingestion between the runs, and the topic stage one statement at a time.
NextSentencias ==
    \/ \E url \in 1..MaxNoticias, fecha \in Fechas, e \in Entradas :
        /\ paso.fase = "libre"
        /\ url <= seq_noticias + 1
        /\ (\A n \in noticias : n.url # url) => seq_noticias < MaxNoticias
        /\ ComoGuardada(url, fecha, e)
        /\ GuardarNoticiasRss(url, fecha, e.medio, e.texto)
    \/ AbrirClasificacion
    \/ SentenciaUpdate
    \/ \E lanza \in BOOLEAN : SentenciaInsert(lanza)
    \/ SentenciaCommit

SpecSentencias == Init /\ [][NextSentencias]_vars

\* the database as committed: what another connection reads
Persistido ==
    IF paso.fase = "libre" THEN [noticias |-> noticias, noticia_tema |-> noticia_tema]
    ELSE paso.persistido

\* the item has a noticia_tema row for every topic detected in it
TieneSusEnlaces(n, nt) ==
    \A t \in clasificar_noticia(n.texto).temas :
        \E r \in nt : r.noticia_id = n.id /\ r.tema_id = tema_map[t]

\* C16: the flag of an item is the last write of the stage for that item: a step
\* that sets procesado_temas finds the item's noticia_tema rows written, and no
\* committed state has an item with the flag set and one of its rows missing.
BanderaUltimaEscritura ==
    /\ [][\A n \in noticias' :
            (n.procesado_temas = 1 /\ \E m \in noticias : m.id = n.id /\ m.procesado_temas = 0)
                => TieneSusEnlaces(n, noticia_tema')]_vars
    /\ [](\A n \in Persistido.noticias :
            n.procesado_temas = 1 => TieneSusEnlaces(n, Persistido.noticia_tema))

-----------------------------------------------------------------------------
(* Backfill over a range of dates                                          *)

\* the bounds a backfill is called with: a date, or None
Limites == Fechas \cup {NULL_INT}

\* the feed entries of the range runs: relevant items that name no place
EntradasRangos == {e \in Entradas : e.texto = "nota_sin_lugar"}

\* Ingestion, the two stages that write what the region aggregation groups by,
\* and the backfill over any range.
NextRangos ==
    \/ \E url \in 1..MaxNoticiasBackfill, fecha \in Fechas, e \in EntradasRangos :
        /\ url <= seq_noticias + 1
        /\ (\A n \in noticias : n.url # url) => seq_noticias < MaxNoticiasBackfill
        /\ ComoGuardada(url, fecha, e)
        /\ GuardarNoticiasRss(url, fecha, e.medio, e.texto)
    \/ ClasificarNoticias
    \/ EjecutarNer
    \/ \E fecha_inicio \in Limites, fecha_fin \in Limites :
            BackfillAgregaciones(fecha_inicio, fecha_fin)

SpecRangos == Init /\ [][NextRangos]_vars

\* the date lies in the range, a bound of None being no bound
EnRango(f, fecha_inicio, fecha_fin) ==
    /\ (fecha_inicio # NULL_INT => fecha_inicio <= f)
    /\ (fecha_fin # NULL_INT => f <= fecha_fin)

\* C17: backfill_agregaciones(start, end) calls ejecutar_agregaciones once for
\* each date that has an item and lies in [start, end], for no other date, and
\* in ascending order of date; a bound that is not given does not restrict.
BackfillUnaVezPorFecha ==
    ultima.op = "backfill_agregaciones" =>
        /\ \A n \in noticias :
              EnRango(n.fecha, ultima.fecha_inicio, ultima.fecha_fin) =>
                  Cardinality({i \in DOMAIN ultima.hechas : ultima.hechas[i] = n.fecha}) = 1
        /\ \A i \in DOMAIN ultima.hechas :
              /\ EnRango(ultima.hechas[i], ultima.fecha_inicio, ultima.fecha_fin)
              /\ \E n \in noticias : n.fecha = ultima.hechas[i]
        /\ \A i, j \in DOMAIN ultima.hechas : i < j => ultima.hechas[i] < ultima.hechas[j]

\* the dates of the range that have items, as a set
FechasDelRango(tn, fecha_inicio, fecha_fin) ==
    {n.fecha : n \in {m \in tn : EnRango(m.fecha, fecha_inicio, fecha_fin)}}

\* C18: when the aggregation of date N raises during a backfill, the dates of the
\* range before N hold the rows the backfill wrote for them, no date after N is
\* processed and its rows are the ones it had; and a backfill of the same range
\* that follows a failed one and ends without an exception leaves every date of
\* the range with the rows an uninterrupted backfill computes for it, and the
\* other dates as they were.
BackfillReanudable ==
    [][ultima'.op = "backfill_agregaciones" =>
        LET enRango == FechasDelRango(noticias, ultima'.fecha_inicio, ultima'.fecha_fin) IN
        /\ ~ultima'.ok =>
            /\ \A d \in enRango :
                  d < ultima'.fecha =>
                      FilasDe(Agregados', d)
                          = FilasCalculadas(noticias, noticia_tema, noticia_entidad, d)
            /\ \A d \in Fechas :
                  d > ultima'.fecha => FilasDe(Agregados', d) = FilasDe(Agregados, d)
            /\ \A i \in DOMAIN ultima'.hechas : ultima'.hechas[i] <= ultima'.fecha
        /\ (ultima'.ok /\ ultima'.repetida) =>
            /\ \A d \in enRango :
                  FilasDe(Agregados', d)
                      = FilasCalculadas(noticias, noticia_tema, noticia_entidad, d)
            /\ \A d \in Fechas \ enRango : FilasDe(Agregados', d) = FilasDe(Agregados, d)]_vars

\* a backfill that follows a failed backfill of the same range ended without an
\* exception and wrote the rows of two dates
BackfillReanudadoTestigo ==
    /\ ultima.op = "backfill_agregaciones" /\ ultima.ok /\ ultima.repetida
    /\ Len(ultima.hechas) = 2

-----------------------------------------------------------------------------
(* Properties of the aggregation: what a date's run leaves alone           *)

\* the rows of the five tables that are keyed by another date
FilasDeOtrasFechas(ag, fecha) ==
    [diaria |-> {r \in ag.diaria : r.fecha # fecha},
     tema |-> {r \in ag.tema : r.fecha # fecha},
     region |-> {r \in ag.region : r.fecha # fecha},
     entidad |-> {r \in ag.entidad : r.fecha # fecha},
     medio |-> {r \in ag.medio : r.fecha # fecha}]

\* C19: a call of ejecutar_agregaciones(D), whether it ends or raises, leaves the
\* rows of every other date in the five aggregate tables, the items with their
\* flags, the link rows, the entities and the aliases as they were.
AgregacionSoloSuFecha ==
    [][ultima'.op = "ejecutar_agregaciones" =>
        /\ FilasDeOtrasFechas(Agregados', ultima'.fecha)
                = FilasDeOtrasFechas(Agregados, ultima'.fecha)
        /\ UNCHANGED <<varsNoticias, varsEntidades>>]_vars

\* ejecutar_agregaciones(D) wrote topic rows for D while another date had topic rows
AgregacionSoloSuFechaTestigo ==
    /\ ultima.op = "ejecutar_agregaciones" /\ ultima.ok
    /\ \E r \in agregacion_tema_diaria : r.fecha = ultima.fecha
    /\ \E r \in agregacion_tema_diaria : r.fecha # ultima.fecha

-----------------------------------------------------------------------------
(* Period comparison                                                       *)

\* round(x, 1) of x = num / den * 100, in tenths: the nearest tenth, a tie
\* going to the even one
RedondearDecimas(num, den) ==
    LET q == (num * 1000) \div den
        r == num * 1000 - q * den IN
    IF 2 * r < den THEN q
    ELSE IF 2 * r > den THEN q + 1
    ELSE IF q % 2 = 0 THEN q ELSE q + 1

\* Variant: calc_change without its guard; the division by zero raises
CalcChangeSinGuarda(current, previous) ==
    IF previous = 0 THEN [error |-> TRUE, definido |-> FALSE, decimas |-> 0]
    ELSE [error |-> FALSE, definido |-> TRUE,
          decimas |-> RedondearDecimas(current - previous, previous)]

\* calc_change(current, previous): None unless previous is positive
calc_change(current, previous) ==
    IF previous # 0 /\ previous > 0
    THEN [error |-> FALSE, definido |-> TRUE,
          decimas |-> RedondearDecimas(current - previous, previous)]
    ELSE Ninguno

\* the column of agregacion_diaria that a metric sums
Columna(r, m) ==
    CASE m = "noticias" -> r.total_noticias
      [] m = "relevantes" -> r.total_relevantes
      [] m = "riesgos" -> r.total_riesgo
      [] m = "oportunidades" -> r.total_oportunidad

\* SELECT SUM(...) FROM agregacion_diaria WHERE fecha >= ? AND fecha <= ?, and
\* `or 0` on the NULL that SUM gives over no rows
SumaPeriodo(tabla, periodo, m) ==
    LET filas == {r \in tabla : r.fecha >= periodo[1] /\ r.fecha <= periodo[2]} IN
    Suma(filas, [r \in filas |-> Columna(r, m)])

\* One call of comparar_periodos(periodo_actual, periodo_anterior).
CompararPeriodos(periodo_actual, periodo_anterior) ==
    LET actual == [m \in Metricas |-> SumaPeriodo(agregacion_diaria, periodo_actual, m)]
        anterior == [m \in Metricas |-> SumaPeriodo(agregacion_diaria, periodo_anterior, m)] IN
    /\ ~comparacion.hecha
    /\ comparacion' =
            [hecha |-> TRUE, periodo_actual |-> periodo_actual,
             periodo_anterior |-> periodo_anterior,
             actual |-> actual, anterior |-> anterior,
             cambios_pct |-> [m \in Metricas |-> calc_change(actual[m], anterior[m])]]
    /\ UNCHANGED <<varsNoticias, varsEntidades, varsResolver, varsAgregacion, ultima,
                   geo, paso, fallo, anomalias>>

\* the largest number of items of one date in the global rows drawn
MaxTotal == 3

\* the global rows the aggregation can write for one date: at least one item,
\* the relevant ones among them, the risks and opportunities among the relevant
FilasDiariasPosibles(fecha) ==
    {r \in [fecha : {fecha}, total_noticias : 1..MaxTotal, total_relevantes : 0..MaxTotal,
            total_riesgo : 0..MaxTotal, total_oportunidad : 0..MaxTotal,
            total_mixto : 0..MaxTotal, medios_activos : {1}, requieren_analisis : {0}] :
        /\ r.total_relevantes <= r.total_noticias
        /\ r.total_riesgo <= r.total_relevantes
        /\ r.total_oportunidad <= r.total_relevantes
        /\ r.total_mixto = IF r.total_riesgo < r.total_oportunidad
                           THEN r.total_riesgo ELSE r.total_oportunidad}

\* the contents of agregacion_diaria: at most one row for each date
TablasDiarias ==
    {a \cup b : a \in {{}} \cup {{r} : r \in FilasDiariasPosibles(1)},
                b \in {{}} \cup {{r} : r \in FilasDiariasPosibles(2)}}

\* the periods compared: (start, end), both inclusive
Periodos == {<<1, 1>>, <<2, 2>>, <<1, 2>>}

\* The global table as the aggregation left it; the items behind its rows play
\* no part in the comparison.
InitComparar ==
    /\ InitSinDiaria
    /\ geo = SinGeografia
    /\ agregacion_diaria \in TablasDiarias

NextComparar ==
    \E periodo_actual \in Periodos, periodo_anterior \in Periodos :
        CompararPeriodos(periodo_actual, periodo_anterior)

SpecComparar == InitComparar /\ [][NextComparar]_vars

\* C20 as stated: comparar_periodos raises no division by zero; a metric whose
\* previous total is zero has no percentage change, whatever its current total;
\* a metric with a positive previous total has the change
\* (current - previous) / previous * 100.
CambioPorcentualExacto ==
    comparacion.hecha =>
        \A m \in Metricas :
            LET x == comparacion.cambios_pct[m]
                c == comparacion.actual[m]
                p == comparacion.anterior[m] IN
            /\ ~x.error
            /\ p = 0 => ~x.definido
            /\ p > 0 => x.definido /\ x.decimas * p = (c - p) * 1000

\* the distance between two integers
Distancia(a, b) == IF a < b THEN b - a ELSE a - b

\* C20, amended: comparar_periodos raises no division by zero; a metric whose
\* previous total is zero has no percentage change, whatever its current total;
\* a metric with a positive previous total has the change
\* (current - previous) / previous * 100 rounded to one decimal.
CambioPorcentualRedondeado ==
    comparacion.hecha =>
        \A m \in Metricas :
            LET x == comparacion.cambios_pct[m]
                c == comparacion.actual[m]
                p == comparacion.anterior[m] IN
            /\ ~x.error
            /\ p = 0 => ~x.definido
            /\ p > 0 => x.definido /\ 2 * Distancia(x.decimas * p, (c - p) * 1000) <= p

\* a comparison with one metric at zero in the previous period and positive in
\* the current one, and another whose change is not a whole number of tenths
CambioPorcentualTestigo ==
    /\ comparacion.hecha
    /\ \E m \in Metricas : comparacion.anterior[m] = 0 /\ comparacion.actual[m] = MaxTotal
    /\ \E m \in Metricas :
          /\ comparacion.anterior[m] > 0
          /\ comparacion.cambios_pct[m].decimas * comparacion.anterior[m]
                # (comparacion.actual[m] - comparacion.anterior[m]) * 1000

-----------------------------------------------------------------------------
(* Anomaly detection                                                       *)

\* metricas, in the order of the loop
MetricasAnomalia == <<"total_noticias", "total_riesgo", "total_oportunidad">>

\* Variant: WHERE fecha > today - dias, the first day of the window left out.
TendenciaSinPrimerDia(tabla, hoy, dias) == {r \in tabla : r.fecha > hoy - dias}

\* get_tendencia_diaria(dias): the global rows WHERE fecha >= today - dias
get_tendencia_diaria(tabla, hoy, dias) == {r \in tabla : r.fecha >= hoy - dias}

\* sum of the column over the rows, and sum of its squares
SumaColumna(df, metrica) == Suma(df, [r \in df |-> r[metrica]])
SumaCuadrados(df, metrica) == Suma(df, [r \in df |-> r[metrica] * r[metrica]])

\* n * (n - 1) times the sample variance df[metrica].std() ** 2 of n rows
VarianzaPorN(df, metrica) ==
    Cardinality(df) * SumaCuadrados(df, metrica)
        - SumaColumna(df, metrica) * SumaColumna(df, metrica)

\* n times the distance of the row's value from media
DesvioPorN(r, df, metrica) == Cardinality(df) * r[metrica] - SumaColumna(df, metrica)

\* (valor - media) ** 2 > (umbral_sigma * std) ** 2 for n > 1 rows, both sides
\* times n * n; the whole number on the left exceeds the quotient exactly when
\* it exceeds its integer part
FueraDeUmbral(r, df, metrica, umbral_sigma) ==
    LET n == Cardinality(df)
        d == DesvioPorN(r, df, metrica) IN
    d * d > (umbral_sigma * umbral_sigma * n * VarianzaPorN(df, metrica)) \div (n - 1)

\* df[metrica] > umbral_alto
SobreUmbralAlto(r, df, metrica, umbral_sigma) ==
    DesvioPorN(r, df, metrica) > 0 /\ FueraDeUmbral(r, df, metrica, umbral_sigma)

\* df[metrica] < umbral_bajo
BajoUmbralBajo(r, df, metrica, umbral_sigma) ==
    DesvioPorN(r, df, metrica) < 0 /\ FueraDeUmbral(r, df, metrica, umbral_sigma)

\* the records of the rows in the order of the frame (ORDER BY fecha); media,
\* desviacion and sigma, figures shown with the record, are left out
RECURSIVE Registros(_, _, _)
Registros(filas, metrica, tipo) ==
    IF filas = {} THEN <<>>
    ELSE LET r == CHOOSE r \in filas : \A q \in filas : r.fecha <= q.fecha IN
         <<[fecha |-> r.fecha, metrica |-> metrica, valor |-> r[metrica], tipo |-> tipo]>>
            \o Registros(filas \ {r}, metrica, tipo)

\* the body of the loop for one metric past `if std == 0: continue`.  The std
\* of a single row is NaN, and no comparison with NaN holds.
RegistrosDeMetrica(df, metrica, umbral_sigma) ==
    IF Cardinality(df) = 1 THEN <<>>
    ELSE Registros({r \in df : SobreUmbralAlto(r, df, metrica, umbral_sigma)}, metrica, "alto")
         \o Registros({r \in df : BajoUmbralBajo(r, df, metrica, umbral_sigma)}, metrica, "bajo")

\* std == 0; the std of a single row is NaN, which is not 0
StdEsCero(df, metrica) == Cardinality(df) > 1 /\ VarianzaPorN(df, metrica) = 0

\* Variant: a metric with std == 0 ends the loop (break for continue).
RECURSIVE RecorrerHastaStdCero(_, _, _)
RecorrerHastaStdCero(df, metricas, umbral_sigma) ==
    IF metricas = <<>> THEN <<>>
    ELSE IF StdEsCero(df, Head(metricas)) THEN <<>>
    ELSE RegistrosDeMetrica(df, Head(metricas), umbral_sigma)
            \o RecorrerHastaStdCero(df, Tail(metricas), umbral_sigma)

\* for metrica in metricas: ... anomalias.append(...)
RECURSIVE RecorrerMetricas(_, _, _)
RecorrerMetricas(df, metricas, umbral_sigma) ==
    IF metricas = <<>> THEN <<>>
    ELSE IF StdEsCero(df, Head(metricas))
    THEN RecorrerMetricas(df, Tail(metricas), umbral_sigma)
    ELSE RegistrosDeMetrica(df, Head(metricas), umbral_sigma)
            \o RecorrerMetricas(df, Tail(metricas), umbral_sigma)

\* anomalias.sort(key=lambda x: x['fecha'], reverse=True): later dates first,
\* records of one date in the order they had
RECURSIVE OrdenarPorFecha(_)
OrdenarPorFecha(lista) ==
    IF lista = <<>> THEN <<>>
    ELSE LET f == CHOOSE f \in {lista[i].fecha : i \in DOMAIN lista} :
                      \A i \in DOMAIN lista : lista[i].fecha <= f IN
         SelectSeq(lista, LAMBDA x : x.fecha = f)
            \o OrdenarPorFecha(SelectSeq(lista, LAMBDA x : x.fecha # f))

\* detectar_anomalias(dias, umbral_sigma) on the day `hoy`
detectar_anomalias(tabla, hoy, dias, umbral_sigma) ==
    LET df == get_tendencia_diaria(tabla, hoy, dias) IN
    IF df = {} THEN <<>>
    ELSE OrdenarPorFecha(RecorrerMetricas(df, MetricasAnomalia, umbral_sigma))

\* One call of detectar_anomalias(dias, umbral_sigma) on the day `hoy`.
DetectarAnomalias(hoy, dias, umbral_sigma) ==
    /\ ~anomalias.hecha
    /\ anomalias' = [hecha |-> TRUE, hoy |-> hoy, dias |-> dias,
                     umbral_sigma |-> umbral_sigma,
                     lista |-> detectar_anomalias(agregacion_diaria, hoy, dias, umbral_sigma)]
    /\ UNCHANGED <<varsNoticias, varsEntidades, varsResolver, varsAgregacion, ultima,
                   geo, paso, fallo, comparacion>>

\* the day of the call when the table holds a week of rows
Hoy == 6

\* the global rows of one date in the tables drawn for the detection: one item
\* or MaxTotal items, all relevant, at most one of them a risk, no opportunity
FilasDeVentana(fecha) ==
    {r \in FilasDiariasPosibles(fecha) :
        /\ r.total_noticias \in {1, MaxTotal}
        /\ r.total_relevantes = r.total_noticias
        /\ r.total_riesgo <= 1
        /\ r.total_oportunidad = 0}

\* the tables with at most one row for each of the dates 1..Hoy
RECURSIVE TablasHasta(_)
TablasHasta(fecha) ==
    IF fecha = 0 THEN {{}}
    ELSE {t \cup f : t \in TablasHasta(fecha - 1),
                     f \in {{}} \cup {{r} : r \in FilasDeVentana(fecha)}}

\* the days of the scenario, its usual total and its exceptional total
DiasEscenario == 30
TotalUsual == 100
TotalExcepcional == 500

FilaEscenario(fecha, total) ==
    [fecha |-> fecha, total_noticias |-> total, total_relevantes |-> 0,
     total_riesgo |-> 0, total_oportunidad |-> 0, total_mixto |-> 0,
     medios_activos |-> 1, requieren_analisis |-> 0]

\* thirty rows with the usual total but for one date with the exceptional total
TablasEscenario ==
    {{FilaEscenario(f, IF f = d THEN TotalExcepcional ELSE TotalUsual) : f \in 1..DiasEscenario}
        : d \in 1..DiasEscenario}

\* The global table as the aggregation left it over a week or over the thirty
\* days of the scenario.
InitAnomalias ==
    /\ InitSinDiaria
    /\ geo = SinGeografia
    /\ agregacion_diaria \in TablasHasta(Hoy) \cup TablasEscenario

\* the calls: (hoy, dias) covering the week, the week without its first day,
\* and the thirty days
LlamadasAnomalias == {<<Hoy, Hoy - 1>>, <<Hoy, Hoy - 2>>, <<DiasEscenario, DiasEscenario - 1>>}

NextAnomalias ==
    \E llamada_a \in LlamadasAnomalias, umbral_sigma \in {2} :
        DetectarAnomalias(llamada_a[1], llamada_a[2], umbral_sigma)

SpecAnomalias == InitAnomalias /\ [][NextAnomalias]_vars

\* the records of the list for one metric
DeMetrica(lista, metrica) == SelectSeq(lista, LAMBDA x : x.metrica = metrica)

\* the rows the last call read
VentanaLeida == get_tendencia_diaria(agregacion_diaria, anomalias.hoy, anomalias.dias)

\* C21: detectar_anomalias returns the empty list when the window has no rows; it
\* has no record for a metric whose values in the window are all equal; and for
\* every other metric it has a record for exactly the rows above the high or
\* below the low threshold, whatever the metrics before it in the loop.
AnomaliasSinVarianza ==
    anomalias.hecha =>
        /\ VentanaLeida = {} => anomalias.lista = <<>>
        /\ \A i \in DOMAIN MetricasAnomalia :
              LET m == MetricasAnomalia[i] IN
              IF \A r, q \in VentanaLeida : r[m] = q[m]
              THEN DeMetrica(anomalias.lista, m) = <<>>
              ELSE \A r \in VentanaLeida :
                      /\ SobreUmbralAlto(r, VentanaLeida, m, anomalias.umbral_sigma)
                            <=> \E k \in DOMAIN anomalias.lista :
                                    /\ anomalias.lista[k].fecha = r.fecha
                                    /\ anomalias.lista[k].metrica = m
                                    /\ anomalias.lista[k].tipo = "alto"
                      /\ BajoUmbralBajo(r, VentanaLeida, m, anomalias.umbral_sigma)
                            <=> \E k \in DOMAIN anomalias.lista :
                                    /\ anomalias.lista[k].fecha = r.fecha
                                    /\ anomalias.lista[k].metrica = m
                                    /\ anomalias.lista[k].tipo = "bajo"

\* a call over a week in which every day has the same total_noticias and one day
\* alone has a risk: the list has the record of the risk
AnomaliasSinVarianzaTestigo ==
    /\ anomalias.hecha
    /\ Cardinality(VentanaLeida) = Hoy
    /\ \A r, q \in VentanaLeida : r.total_noticias = q.total_noticias
    /\ \E k \in DOMAIN anomalias.lista : anomalias.lista[k].metrica = "total_riesgo"

\* the last call read the thirty rows of the scenario with umbral_sigma 2.0
LeyoEscenario ==
    /\ anomalias.hecha
    /\ agregacion_diaria \in TablasEscenario
    /\ anomalias.hoy = DiasEscenario
    /\ anomalias.dias = DiasEscenario - 1
    /\ anomalias.umbral_sigma = 2

\* C22: over thirty daily rows with total_noticias 100 on all days but one with
\* 500, detectar_anomalias with umbral_sigma 2.0 has for total_noticias exactly
\* one record, of type 'alto', for the day with 500.
AnomaliaDelEscenario ==
    LeyoEscenario =>
        \E r \in agregacion_diaria :
            /\ r.total_noticias = TotalExcepcional
            /\ DeMetrica(anomalias.lista, "total_noticias")
                  = <<[fecha |-> r.fecha, metrica |-> "total_noticias",
                       valor |-> TotalExcepcional, tipo |-> "alto"]>>

\* the scenario was read with the exceptional total on the first day of the window
AnomaliaDelEscenarioTestigo ==
    /\ LeyoEscenario
    /\ \E r \in agregacion_diaria : r.fecha = 1 /\ r.total_noticias = TotalExcepcional

-----------------------------------------------------------------------------
\* PRIMARY KEY (fecha, region_id, nivel_geografico) of agregacion_region_diaria
ClaveRegion(r) == <<r.fecha, r.region_id, r.nivel_geografico>>

\* C23: the rows the region computation inserts for the date of a call of
\* ejecutar_agregaciones have pairwise distinct (fecha, region_id,
\* nivel_geografico) keys, so the call never fails on a key conflict.
ClavesRegionDistintas ==
    (ultima.op = "ejecutar_agregaciones") =>
        /\ \A g, h \in GruposRegion(noticias, ultima.fecha) :
              g # h => ClaveRegion(FilaRegion(noticias, ultima.fecha, g)) #
                       ClaveRegion(FilaRegion(noticias, ultima.fecha, h))
        /\ ultima.ok

\* C24: after ejecutar_agregaciones(D) the region rows of D count every item
\* dated D once: their total_noticias add up to the number of items dated D,
\* which is the total_noticias of the global row of D.
RegionCuentaTodos ==
    (ultima.op = "ejecutar_agregaciones") =>
        LET deRegion == {r \in agregacion_region_diaria : r.fecha = ultima.fecha}
            suma == Suma(deRegion, [r \in deRegion |-> r.total_noticias]) IN
        /\ suma = Cardinality(DeFecha(noticias, ultima.fecha))
        /\ \A d \in agregacion_diaria :
              d.fecha = ultima.fecha => suma = d.total_noticias

-----------------------------------------------------------------------------
(* Properties of the stages: which items a run takes                       *)

\* the item of the store after the step that has the id of n
Despues(n) == CHOOSE m \in noticias' : m.id = n.id

\* C25: a run of the NER stage (of the risk stage) flags every item whose
\* procesado_ner (procesado_riesgo) is unset, whatever the topic stage did.
EtapasIndependientes ==
    [][/\ EjecutarNer =>
            \A n \in noticias : n.procesado_ner = 0 => Despues(n).procesado_ner = 1
       /\ ClasificarRiesgoOportunidadDb =>
            \A n \in noticias : n.procesado_riesgo = 0 => Despues(n).procesado_riesgo = 1]_vars

\* C25, amended: a run of the NER stage (of the risk stage) flags an item whose
\* own flag is unset exactly when the item is relevant, whatever its other
\* stage flags are.
EtapasSegunRelevancia ==
    [][/\ EjecutarNer =>
            \A n \in noticias :
                n.procesado_ner = 0 => (Despues(n).procesado_ner = 1 <=> n.relevante = 1)
       /\ ClasificarRiesgoOportunidadDb =>
            \A n \in noticias :
                n.procesado_riesgo = 0 =>
                    (Despues(n).procesado_riesgo = 1 <=> n.relevante = 1)]_vars

\* the risk stage has taken a relevant item the NER stage has not seen, and has
\* left alone an older item the topic stage found not relevant
EtapasSegunRelevanciaTestigo ==
    \E n, m \in noticias :
        /\ n.relevante = 1 /\ n.procesado_riesgo = 1 /\ n.procesado_ner = 0
        /\ m.id < n.id /\ m.relevante = 0 /\ m.procesado_temas = 1
        /\ m.procesado_ner = 0 /\ m.procesado_riesgo = 0

-----------------------------------------------------------------------------
\* C26: every value of the geography configuration that is compared with the
\* mentions is loaded in the normalized form of the mentions, so an item that
\* mentions the target state, in any case and with or without diacritics, and
\* no key country other than Mexico, gets the level estatal.
ConfiguracionNormalizada ==
    geo.hecha =>
        LET config == ConfigGeografia(geo.yaml)
            lugares_norm == {normalizar_texto(l) : l \in Elementos(geo.deteccion)} IN
        /\ config.estado_objetivo = normalizar_texto(geo.yaml.estado_objetivo)
        /\ config.estados_mexico = {normalizar_texto(e) : e \in geo.yaml.estados_mexico}
        /\ config.paises_clave = {normalizar_texto(p) : p \in geo.yaml.paises_clave}
        /\ config.empresas_clave = {normalizar_texto(c) : c \in geo.yaml.empresas_clave}
        /\ (/\ normalizar_texto(geo.yaml.estado_objetivo) \in lugares_norm
            /\ \A p \in geo.yaml.paises_clave :
                  normalizar_texto(p) \in lugares_norm => normalizar_texto(p) = mexico)
              => geo.nivel = "estatal"

-----------------------------------------------------------------------------
(* The pipeline run                                                        *)

\* parse_fecha: the date the entry carries, or the current date when the
\* entry has none or one that does not parse
parse_fecha(fecha_str, hoy) == IF fecha_str = NULL_INT THEN hoy ELSE fecha_str

\* Variant: INSERT OR REPLACE, the row that holds the URL is deleted and the
\* entry is stored as a new row.
RECURSIVE GuardarReemplazando(_, _, _)
GuardarReemplazando(st, entries, hoy) ==
    IF entries = <<>> THEN st
    ELSE LET entry == Head(entries) IN
         GuardarReemplazando(
            [noticias |-> {n \in st.noticias : n.url # entry.url} \cup
                {NuevaNoticia(st.seq_noticias + 1, entry.url,
                              parse_fecha(entry.published, hoy),
                              entry.medio, entry.texto)},
             seq_noticias |-> st.seq_noticias + 1,
             numeradas |-> st.numeradas /\ entry.url <= st.seq_noticias + 1],
            Tail(entries), hoy)

\* guardar_noticias_rss over the entries of the feeds, in order: INSERT OR
\* IGNORE of each; `numeradas` tells that the new URLs come numbered in the
\* order of their first appearance
RECURSIVE guardar_noticias_rss(_, _, _)
guardar_noticias_rss(st, entries, hoy) ==
    IF entries = <<>> THEN st
    ELSE LET entry == Head(entries) IN
         IF \E n \in st.noticias : n.url = entry.url
         THEN guardar_noticias_rss(st, Tail(entries), hoy)
         ELSE guardar_noticias_rss(
                [noticias |-> st.noticias \cup
                    {NuevaNoticia(st.seq_noticias + 1, entry.url,
                                  parse_fecha(entry.published, hoy),
                                  entry.medio, entry.texto)},
                 seq_noticias |-> st.seq_noticias + 1,
                 numeradas |-> st.numeradas /\ entry.url = st.seq_noticias + 1],
                Tail(entries), hoy)

\* main(): the ingestion, the topic, NER and risk stages and
\* ejecutar_agregaciones() with its default date, the current one.  The
\* migrations, the CSV and the LLM summaries write nothing the model holds.
main(tn, seq, nt, ne, ents, aliases, ag, entries, hoy) ==
    LET rss == guardar_noticias_rss(
                  [noticias |-> tn, seq_noticias |-> seq, numeradas |-> TRUE], entries, hoy)
        sinTemas == {n \in rss.noticias : n.procesado_temas = 0}
        conTemas == ActualizarTemas(rss.noticias, sinTemas)
        enlacesTema == EnlazarTemasDeTodas(nt, PorId(sinTemas))
        paraNer == NoticiasParaNer(conTemas)
        st == EnlazarEntidadesDeTodas(
                  [entidades |-> ents, entidad_alias |-> aliases,
                   alias_map |-> CargarAliasMap(aliases), noticia_entidad |-> ne],
                  PorId(paraNer))
        conNer == ActualizarNer(conTemas, paraNer)
        conRiesgo == ActualizarRiesgo(conNer, FilasPorEvaluar(conNer))
        r == ejecutar_agregaciones(ag, conRiesgo, enlacesTema, st.noticia_entidad, hoy) IN
    [numeradas |-> rss.numeradas, noticias |-> conRiesgo,
     seq_noticias |-> rss.seq_noticias, noticia_tema |-> enlacesTema,
     noticia_entidad |-> st.noticia_entidad, entidades |-> st.entidades,
     entidad_alias |-> st.entidad_alias, ok |-> r.ok, ag |-> r.ag]

\* One run of main() on the day `hoy` with the feeds carrying `entries`.
Main(hoy, entries) ==
    \E r \in {main(noticias, seq_noticias, noticia_tema, noticia_entidad, entidades,
                   entidad_alias, Agregados, entries, hoy)} :
    /\ r.numeradas
    /\ noticias' = r.noticias
    /\ seq_noticias' = r.seq_noticias
    /\ noticia_tema' = r.noticia_tema
    /\ noticia_entidad' = r.noticia_entidad
    /\ entidades' = r.entidades
    /\ entidad_alias' = r.entidad_alias
    /\ PonerAgregados(r.ag)
    /\ ultima' = [op |-> "main", fecha |-> hoy, ok |-> r.ok, repetida |-> FALSE,
                  fecha_inicio |-> 0, fecha_fin |-> 0, hechas |-> <<hoy>>]
    /\ UNCHANGED <<varsResolver, varsConsultas>>

MaxEntradas == 2

\* the entries a feed can carry on the day `hoy`: a stored or a new URL, a
\* publication date up to that day or none, a source and a text
EntradasDelDia(hoy) ==
    [url : 1..MaxNoticias, published : {NULL_INT} \cup {f \in Fechas : f <= hoy},
     medio : {e.medio : e \in Entradas}, texto : {e.texto : e \in Entradas}]

FeedsDelDia(hoy) ==
    UNION {[1..k -> EntradasDelDia(hoy)] : k \in 1..MaxEntradas}

\* The pipeline run once a day or several times a day; the days do not go back.
NextMain ==
    \E hoy \in Fechas :
        /\ ultima.op = "main" => hoy >= ultima.fecha
        /\ \E entries \in FeedsDelDia(hoy) : Main(hoy, entries)

SpecMain == Init /\ [][NextMain]_vars

\* C27: after a run of main() every item stored by the ingestion of that run
\* is counted in the global row of its own date: the row exists and its
\* total_noticias is the number of items stored with that date.
MainCuentaLoGuardado ==
    [][(ultima'.op = "main") =>
          \A n \in noticias' :
              n.id > seq_noticias =>
                  \E d \in agregacion_diaria' :
                      /\ d.fecha = n.fecha
                      /\ d.total_noticias = Cardinality(DeFecha(noticias', n.fecha))]_vars

-----------------------------------------------------------------------------
(* The pipeline operations with feeds that repeat stored URLs              *)

\* One call of guardar_noticias_rss() on the day `hoy`; `repetida` tells that
\* an entry carried a URL already stored when the call started.
GuardarFeed(hoy, entries) ==
    \E r \in {guardar_noticias_rss(
                [noticias |-> noticias, seq_noticias |-> seq_noticias, numeradas |-> TRUE],
                entries, hoy)} :
    /\ r.numeradas
    /\ r.seq_noticias <= MaxNoticias
    /\ noticias' = r.noticias
    /\ seq_noticias' = r.seq_noticias
    /\ ultima' = [OtraOp EXCEPT
                    !.op = "guardar_noticias_rss",
                    !.repetida = \E i \in 1..Len(entries), n \in noticias :
                                    n.url = entries[i].url]
    /\ UNCHANGED <<noticia_tema, noticia_entidad, varsEntidades, varsResolver,
                   varsAgregacion, varsConsultas>>

\* a feed of one entry, of an item that is not relevant or of one that is
FeedsDeUna(hoy) ==
    {<<x>> : x \in {y \in EntradasDelDia(hoy) :
                        /\ [medio |-> y.medio, texto |-> y.texto] \in Entradas
                        /\ y.texto \in {"nota_irrelevante", "nota_sin_lugar"}}}

\* Ingestion, the three stages, the aggregation of a date and the backfill of
\* all the history, in any order.
NextCiclo ==
    \/ \E hoy \in Fechas : \E entries \in FeedsDeUna(hoy) : GuardarFeed(hoy, entries)
    \/ ClasificarNoticias
    \/ EjecutarNer
    \/ ClasificarRiesgoOportunidadDb
    \/ \E fecha \in Fechas : EjecutarAgregaciones(fecha)
    \/ BackfillAgregaciones(NULL_INT, NULL_INT)

SpecCiclo == Init /\ [][NextCiclo]_vars

\* C28: no step of the pipeline removes an item or takes back a stage flag
\* that is set, and a call of the ingestion leaves every stored item, the one
\* whose URL the feed repeats included, as it was.
ItemsPermanentes ==
    [][/\ \A n \in noticias :
            \E m \in noticias' :
                /\ m.id = n.id /\ m.url = n.url
                /\ n.procesado_temas = 1 => m.procesado_temas = 1
                /\ n.procesado_ner = 1 => m.procesado_ner = 1
                /\ n.procesado_riesgo = 1 => m.procesado_riesgo = 1
       /\ (ultima'.op = "guardar_noticias_rss") =>
            /\ noticias \subseteq noticias'
            /\ ultima'.repetida => noticias' = noticias]_vars

\* a feed has repeated a stored URL when an item had gone through the three
\* stages and been aggregated
ItemsPermanentesTestigo ==
    /\ ultima.op = "guardar_noticias_rss"
    /\ ultima.repetida
    /\ \E n \in noticias :
          /\ n.procesado_temas = 1 /\ n.procesado_ner = 1 /\ n.procesado_riesgo = 1
          /\ \E d \in agregacion_diaria : d.fecha = n.fecha

-----------------------------------------------------------------------------
\* C29: an item whose procesado_ner or procesado_riesgo is set has
\* procesado_temas set and is relevant; an item that is not relevant, or not
\* classified yet, has neither of the two flags.
BanderasSoloDeRelevantes ==
    \A n \in noticias :
        (n.procesado_ner = 1 \/ n.procesado_riesgo = 1) =>
            (n.procesado_temas = 1 /\ n.relevante = 1)

\* the NER and the risk stage have run over a relevant item, a classified item
\* that is not relevant and an item not classified yet
BanderasSoloDeRelevantesTestigo ==
    \E n, m \in noticias :
        /\ n.relevante = 1 /\ n.procesado_ner = 1 /\ n.procesado_riesgo = 1
        /\ m.procesado_ner = 0 /\ m.procesado_riesgo = 0
        /\ m.procesado_temas = 1 /\ m.relevante = 0
        /\ m.fecha = n.fecha

-----------------------------------------------------------------------------
\* C30: after ejecutar_agregaciones(D) on a date with items the media rows of D
\* count every item of D once under its source: their total_noticias add up to
\* the total_noticias of the global row of D, and there are medios_activos of
\* them.
MediosParticionan ==
    (ultima.op = "ejecutar_agregaciones" /\ DeFecha(noticias, ultima.fecha) # {}) =>
        LET deMedio == {r \in agregacion_medio_diaria : r.fecha = ultima.fecha} IN
        /\ \E d \in agregacion_diaria : d.fecha = ultima.fecha
        /\ \A d \in agregacion_diaria :
              d.fecha = ultima.fecha =>
                  /\ Suma(deMedio, [r \in deMedio |-> r.total_noticias]) = d.total_noticias
                  /\ Cardinality(deMedio) = d.medios_activos
        /\ \A n \in DeFecha(noticias, ultima.fecha) :
              Cardinality({r \in deMedio : r.medio = n.medio}) = 1

=============================================================================
